---- MODULE Spec2Model ----
(***************************************************************************)
(* FSFS item-index engine (index.c): the log-to-phys (L2P) and             *)
(* phys-to-log (P2L) index builders, the packed number stream they are     *)
(* read through, and the cached readers.                                   *)
(*                                                                         *)
(* Files are byte sequences.  One pack shard (revisions 0 .. S-1, packed)  *)
(* is modelled, so every revision maps to the same L2P / P2L index file    *)
(* and to the same header cache key.                                       *)
(***************************************************************************)
EXTENDS Integers, Sequences, FiniteSets, TLC

VARIABLES
  l2p_proto,          \* L2P proto index file: sequence of l2p_proto_entry_t
  l2p_index,          \* L2P index file: [exists, data]
  l2p_header_cache,   \* ffd->l2p_header_cache: [cached, value]
  l2p_page_cache,     \* ffd->l2p_page_cache: set of [key, page]
  p2l_proto,          \* P2L proto index file: sequence of svn_fs_fs__p2l_entry_t
  p2l_index,          \* P2L index file: [exists, data]
  p2l_header_cache,   \* ffd->p2l_header_cache: [cached, value]
  p2l_page_cache,     \* ffd->p2l_page_cache: set of [key, page]
  packed_numbers,     \* the numbers written to a packed file: [signed, value]
  packed_file,        \* the bytes of that file
  packed_stream,      \* a packed number stream reading it
  readers,            \* the lookups in progress: reader -> local state
  index_writer,       \* svn_fs_fs__l2p_index_create in progress: [pc, content]
  serialized,         \* a cache item on its way through (de-)serialization
  p2l_reader,         \* a P2L lookup in progress: its local state
  temp_context,       \* the svn_temp_serializer__context_t of temp_serializer.c
  key_cache,          \* the cache keys built: set of [fn, number, rest, key]
  report              \* dav_svn__file_revs_report in progress: baton and output

vars == <<l2p_proto, l2p_index, l2p_header_cache, l2p_page_cache,
          p2l_proto, p2l_index, p2l_header_cache, p2l_page_cache,
          packed_numbers, packed_file, packed_stream, readers, index_writer, serialized,
          p2l_reader, temp_context, key_cache, report>>

l2p_vars == <<l2p_proto, l2p_index, l2p_header_cache, l2p_page_cache>>
p2l_vars == <<p2l_proto, p2l_index, p2l_header_cache, p2l_page_cache>>
stream_vars == <<packed_numbers, packed_file, packed_stream>>
other_vars == <<p2l_reader, temp_context, key_cache, report>>

----------------------------------------------------------------------------
(* Bounds of the model *)

\* longest L2P proto index (records)
MaxL2PRecords == 3

\* longest P2L proto index (entries)
MaxP2LEntries == 3

\* the count of the rounds of a prefetch loop stops here
MaxLoopRounds == 8

\* most cache keys kept for comparison
MaxKeys == 2

\* most file revisions of a report, and most txdelta windows of a revision
MaxFileRevs == 2
MaxWindows == 2

\* the latest write of a report during which the connection may be lost
MaxWrites == 8

\* largest rev file the P2L proto index describes (bytes)
MaxP2LFileSize == 256

\* most numbers written to the packed file of the stream model
MaxPackedNumbers == 4

\* number of concurrent readers
NumReaders == 2

(* Configuration (fs_fs_data_t) and program constants *)

\* ffd->l2p_page_size: (max) number of entries per L2P page
l2p_page_size == 2

\* ffd->p2l_page_size: bytes of the rev / pack file covered by a P2L page
p2l_page_size == 64

\* ffd->block_size: the packed number streams read in chunks of this size
block_size == 16

\* ffd->max_files_per_dir: the shard size
max_files_per_dir == 3

\* enum { MAX_NUMBER_PREFETCH = 64 }
MAX_NUMBER_PREFETCH == 64

\* the literal 0x10000 of l2p_index_lookup's prefetch window, narrowed to
\* the size of a few pages of the modelled indexes
L2P_WINDOW == 8

SVN_INVALID_REVNUM == -1

SVN_NO_ERROR == "SVN_NO_ERROR"

Min(a, b) == IF a < b THEN a ELSE b

\* Op applied to VALUE: names a result that the steps after it use
With(value, Op(_)) == Op(value)

\* APR_ALIGN(x, boundary)
APR_ALIGN(x, boundary) == ((x + boundary - 1) \div boundary) * boundary

NoFile == [exists |-> FALSE, data |-> <<>>]

\* all revisions of the modelled shard are packed
svn_fs_fs__is_packed_rev(revision) == TRUE

base_revision(revision) ==
  IF svn_fs_fs__is_packed_rev(revision)
    THEN revision - (revision % max_files_per_dir)
    ELSE revision

----------------------------------------------------------------------------
(* 7b/8b number encoding *)

\* the width of apr_uint64_t and apr_int64_t, narrowed: like 64 it leaves
\* a partial group of bits for the last byte of the longest encoding
UINT64_BITS == 30
APR_UINT64_MODULUS == 2 ^ UINT64_BITS

\* conversion to apr_uint64_t
to_uint64(x) == x % APR_UINT64_MODULUS

\* the value of an apr_int64_t expression (two's complement)
to_int64(x) ==
  ((x + APR_UINT64_MODULUS \div 2) % APR_UINT64_MODULUS)
    - APR_UINT64_MODULUS \div 2

\* the groups of 7 bits written most significant first
RECURSIVE encode_uint_msb_first(_)
encode_uint_msb_first(value) ==
  IF value >= 128
    THEN With(encode_uint_msb_first(value \div 128), LAMBDA high :
           [i \in 1..Len(high) |-> (high[i] % 128) + 128]
             \o <<value % 128>>)
    ELSE <<value % 128>>

RECURSIVE encode_uint(_)
encode_uint(value) ==
  IF value >= 128
    THEN <<(value % 128) + 128>> \o encode_uint(value \div 128)
    ELSE <<value % 128>>

encode_int(value) ==
  encode_uint(to_uint64(IF value < 0
                          THEN to_int64(-1 - to_int64(2 * value))
                          ELSE to_int64(2 * value)))

\* the mapping without the -1 of the negative branch
decode_int_symmetric(value) ==
  to_int64(IF value % 2 = 1
             THEN to_uint64(0 - (value \div 2))
             ELSE value \div 2)

decode_int(value) ==
  to_int64(IF value % 2 = 1
             THEN to_uint64(-1 - (value \div 2))
             ELSE value \div 2)

----------------------------------------------------------------------------
(* packed number stream *)

NewStream ==
  [open |-> TRUE, used |-> 0, current |-> 0, start_offset |-> 0,
   next_offset |-> 0, buffer |-> <<>>, block_size |-> block_size]

\* *stream == NULL
NullStream ==
  [open |-> FALSE, used |-> 0, current |-> 0, start_offset |-> 0,
   next_offset |-> 0, buffer |-> <<>>, block_size |-> block_size]

\* no index is being written
IdleWriter == [pc |-> "idle", content |-> <<>>]

\* no cache item is being (de-)serialized
NoItem == [kind |-> "none"]

\* the readers and the local state of a reader that is not in a lookup
Readers == 1..NumReaders
IdleReader ==
  [pc |-> "idle", revision |-> 0, item_index |-> 0, stream |-> NullStream,
   header |-> <<>>, info |-> <<>>, page |-> <<>>, err |-> SVN_NO_ERROR,
   offset |-> 0, dir |-> 0, prefetch_revision |-> 0, pages |-> <<>>,
   i |-> 0, end |-> FALSE]

\* the local state of a P2L lookup that has not been started: PRECEDING and
\* FOLLOWING count the rounds of the two prefetch loops
IdleP2LReader ==
  [pc |-> "idle", kind |-> "none", offset |-> 0, stream |-> NullStream,
   page_info |-> <<>>, key |-> <<>>, baton |-> <<>>, leaking_bucket |-> 0,
   end |-> FALSE, min_offset |-> 0, max_offset |-> 0, entries |-> <<>>,
   err |-> SVN_NO_ERROR, preceding |-> 0, following |-> 0]

\* no serialization context has been set up
NoContext ==
  [exists |-> FALSE, source |-> <<>>, buffer |-> <<>>, pushes |-> 0,
   pops |-> 0]

\* no file-revs report is being served
NoReport ==
  [pc |-> "idle", needs_header |-> FALSE, window_handler |-> FALSE,
   revs |-> <<>>, windows |-> 0, output |-> <<>>, aborted |-> FALSE,
   abort_at |-> 0,
   err |-> FALSE]

\* "if the last number is incomplete, trim it from the buffer"
RECURSIVE TrimIncomplete(_, _)
TrimIncomplete(buffer, read) ==
  IF read > 0 /\ buffer[read] >= 128
    THEN TrimIncomplete(buffer, read - 1)
    ELSE read

\* the inner while loop: decode one multi-byte number starting at buffer[i]
\* (i counts from 0 as in the source)
RECURSIVE DecodeNumber(_, _, _, _)
DecodeNumber(buffer, i, value, shift) ==
  IF buffer[i + 1] >= 128
    THEN DecodeNumber(buffer, i + 1,
                      value + (buffer[i + 1] % 128) * (2 ^ shift), shift + 7)
    ELSE [value |-> value + buffer[i + 1] * (2 ^ shift),
          next  |-> i + 1,
          shift |-> shift]

\* "parse file buffer and expand into stream buffer"
RECURSIVE ExpandBuffer(_, _, _, _)
ExpandBuffer(buffer, i, read, target) ==
  IF i >= read
    THEN [err |-> SVN_NO_ERROR, target |-> target, i |-> i]
    ELSE IF buffer[i + 1] < 128
      THEN ExpandBuffer(buffer, i + 1, read,
             Append(target, [value |-> buffer[i + 1], total_len |-> i + 1]))
      ELSE With(DecodeNumber(buffer, i, 0, 0), LAMBDA d :
             IF d.shift > 64
               THEN [err |-> "SVN_ERR_FS_ITEM_INDEX_CORRUPTION",
                     target |-> target, i |-> d.next]
               ELSE ExpandBuffer(buffer, d.next, read,
                      Append(target,
                             [value |-> d.value, total_len |-> d.next])))

\* a refill that always asks for a full buffer
packed_stream_read_size_full(stream) == MAX_NUMBER_PREFETCH

\* a refill that never reads beyond the end of the block
packed_stream_read_size_clipped(stream) ==
  stream.block_size - (stream.next_offset % stream.block_size)

\* the number of bytes packed_stream_read asks the file for: up to the end
\* of the block if that leaves room for a number, else a full buffer
packed_stream_read_size(stream) ==
  LET block_start == stream.next_offset
                       - (stream.next_offset % stream.block_size)
      block_left  == stream.block_size - (stream.next_offset - block_start)
  IN IF block_left >= 10 /\ block_left < MAX_NUMBER_PREFETCH
       THEN block_left
       ELSE MAX_NUMBER_PREFETCH

\* the bytes packed_stream_read gets from the file at STREAM->NEXT_OFFSET
packed_stream_read_bytes(stream, data) ==
  IF stream.next_offset >= Len(data)
    THEN <<>>
    ELSE SubSeq(data, stream.next_offset + 1,
                stream.next_offset
                  + Min(packed_stream_read_size(stream),
                        Len(data) - stream.next_offset))

packed_stream_read(stream, data) ==
  With(packed_stream_read_bytes(stream, data), LAMBDA buffer :
  With(TrimIncomplete(buffer, Len(buffer)), LAMBDA read :
    IF read = 0
      THEN [err |-> "APR_EOF",
            stream |-> [stream EXCEPT !.start_offset = stream.next_offset]]
      ELSE
  With(ExpandBuffer(buffer, 0, read, <<>>), LAMBDA x :
    IF x.err # SVN_NO_ERROR
      THEN [err |-> x.err,
            stream |-> [stream EXCEPT !.start_offset = stream.next_offset]]
      ELSE [err |-> SVN_NO_ERROR,
            stream |-> [stream EXCEPT
                          !.start_offset = stream.next_offset,
                          !.used = Len(x.target),
                          !.next_offset = stream.next_offset + x.i,
                          !.current = 0,
                          !.buffer = x.target]])))

packed_stream_open(file) ==
  IF file.exists
    THEN [err |-> SVN_NO_ERROR, stream |-> NewStream]
    ELSE [err |-> "ENOENT", stream |-> NullStream]

packed_stream_get(stream, data) ==
  With(IF stream.current = stream.used
         THEN packed_stream_read(stream, data)
         ELSE [err |-> SVN_NO_ERROR, stream |-> stream], LAMBDA r :
    IF r.err # SVN_NO_ERROR
      THEN [err |-> r.err, value |-> 0, stream |-> r.stream]
      ELSE [err |-> SVN_NO_ERROR,
            value |-> r.stream.buffer[r.stream.current + 1].value,
            stream |-> [r.stream EXCEPT !.current = r.stream.current + 1]])

\* a seek that leaves the position alone when OFFSET is buffered
packed_stream_seek_lazy(stream, offset) ==
  IF \/ stream.used = 0
     \/ offset < stream.start_offset
     \/ offset >= stream.next_offset
    THEN [stream EXCEPT !.start_offset = offset, !.next_offset = offset,
                        !.current = 0, !.used = 0, !.buffer = <<>>]
    ELSE stream

packed_stream_seek(stream, offset) ==
  IF \/ stream.used = 0
     \/ offset < stream.start_offset
     \/ offset >= stream.next_offset
    THEN [stream EXCEPT !.start_offset = offset, !.next_offset = offset,
                        !.current = 0, !.used = 0, !.buffer = <<>>]
    ELSE [stream EXCEPT !.current =
            Cardinality({i \in 1..stream.used :
                           stream.buffer[i].total_len
                             <= offset - stream.start_offset})]

\* an offset that takes every buffered number for one byte
packed_stream_offset_counted(stream) == stream.start_offset + stream.current

packed_stream_offset(stream) ==
  IF stream.current = 0
    THEN stream.start_offset
    ELSE stream.buffer[stream.current].total_len + stream.start_offset

\* N consecutive packed_stream_get calls; the values read, in order
RECURSIVE packed_stream_get_n(_, _, _, _)
packed_stream_get_n(stream, data, n, values) ==
  IF n = 0
    THEN [err |-> SVN_NO_ERROR, values |-> values, stream |-> stream]
    ELSE With(packed_stream_get(stream, data), LAMBDA g :
           IF g.err # SVN_NO_ERROR
             THEN [err |-> g.err, values |-> values, stream |-> g.stream]
             ELSE packed_stream_get_n(g.stream, data, n - 1,
                                      Append(values, g.value)))

RECURSIVE Concat(_)
Concat(seqs) ==
  IF seqs = <<>> THEN <<>> ELSE Head(seqs) \o Concat(Tail(seqs))

RECURSIVE SumSeq(_)
SumSeq(s) == IF s = <<>> THEN 0 ELSE Head(s) + SumSeq(Tail(s))

----------------------------------------------------------------------------
(* log-to-phys index: proto index and builder *)

\* the record svn_fs_fs__l2p_proto_index_add_revision writes
l2p_add_revision_entry == [offset |-> 0, item_index |-> 0]

\* the record svn_fs_fs__l2p_proto_index_add_entry writes (offset >= -1)
l2p_add_entry_entry(offset, item_index) ==
  [offset |-> offset + 1, item_index |-> item_index]

\* encode_l2p_page: entries[start] .. entries[end-1] (0-based) as deltas
RECURSIVE encode_l2p_page(_, _, _, _)
encode_l2p_page(entries, start, end, last_value) ==
  IF start >= end
    THEN <<>>
    ELSE encode_int(entries[start + 1] - last_value)
           \o encode_l2p_page(entries, start + 1, end, entries[start + 1])

\* l2p_dump_pages with pages of up to P + 1 entries
RECURSIVE l2p_dump_pages_wide(_, _, _)
l2p_dump_pages_wide(entries, i, st) ==
  IF i >= Len(entries)
    THEN st
    ELSE LET entry_count == Min(Len(entries) - i, l2p_page_size + 1)
             encoded     == encode_l2p_page(entries, i, i + entry_count, 0)
         IN l2p_dump_pages_wide(entries, i + entry_count,
              [st EXCEPT !.entry_counts = Append(@, entry_count),
                         !.page_sizes   = Append(@, Len(encoded)),
                         !.buffer       = @ \o encoded])

\* "dump entries, grouped into pages": the for loop over i
RECURSIVE l2p_dump_pages(_, _, _)
l2p_dump_pages(entries, i, st) ==
  IF i >= Len(entries)
    THEN st
    ELSE LET entry_count == Min(Len(entries) - i, l2p_page_size)
             encoded     == encode_l2p_page(entries, i, i + entry_count, 0)
         IN l2p_dump_pages(entries, i + entry_count,
              [st EXCEPT !.entry_counts = Append(@, entry_count),
                         !.page_sizes   = Append(@, Len(encoded)),
                         !.buffer       = @ \o encoded])

\* "handle new revision": dump the pages, clear ENTRIES, count the pages
l2p_end_revision(st) ==
  LET d == l2p_dump_pages(st.entries, 0, st)
  IN [d EXCEPT !.entries = <<>>,
               !.page_counts = Append(@, Len(d.page_sizes) - st.last_page_count),
               !.last_page_count = Len(d.page_sizes)]

\* "store the mapping in our array"
l2p_store_mapping(st, proto_entry) ==
  LET idx    == proto_entry.item_index
      padded == st.entries
                  \o [k \in 1..(idx + 1 - Len(st.entries)) |-> 0]
  IN [st EXCEPT !.entries = [padded EXCEPT ![idx + 1] = proto_entry.offset]]

\* the condition under which the builder ends the current revision
l2p_is_new_revision(entry, proto_entry, eof) ==
  (entry > 0 /\ proto_entry.offset = 0) \/ eof

\* the main loop: "process all entries until we fail due to EOF"
RECURSIVE l2p_create_loop(_, _, _)
l2p_create_loop(proto, entry, st) ==
  LET eof         == entry >= Len(proto)
      proto_entry == IF eof THEN l2p_add_revision_entry ELSE proto[entry + 1]
  IN IF l2p_is_new_revision(entry, proto_entry, eof)
       THEN IF eof THEN l2p_end_revision(st)
                   ELSE l2p_create_loop(proto, entry + 1, l2p_end_revision(st))
       ELSE l2p_create_loop(proto, entry + 1,
                            l2p_store_mapping(st, proto_entry))

\* the tables the builder has collected when the proto index is exhausted
l2p_collect(proto) ==
  l2p_create_loop(proto, 0,
    [entries |-> <<>>, page_counts |-> <<>>, page_sizes |-> <<>>,
     entry_counts |-> <<>>, buffer |-> <<>>, last_page_count |-> 0])

\* "write the page table": (size, entry count) per page
l2p_write_page_table(st) ==
  Concat([i \in 1..Len(st.page_sizes) |->
            encode_uint(st.page_sizes[i]) \o encode_uint(st.entry_counts[i])])

\* the content of the index file svn_fs_fs__l2p_index_create writes
svn_fs_fs__l2p_index_create(proto, revision) ==
  LET st == l2p_collect(proto)
  IN encode_uint(revision)
       \o encode_uint(l2p_page_size)
       \o encode_uint(Len(st.page_counts))
       \o encode_uint(Len(st.page_sizes))
       \o Concat([i \in 1..Len(st.page_counts) |-> encode_uint(st.page_counts[i])])
       \o l2p_write_page_table(st)
       \o st.buffer

----------------------------------------------------------------------------
(* svn_cache__t as the readers use it: has_key, get / get_partial, set *)

EmptyHeaderCache == [cached |-> FALSE, value |-> <<>>]

svn_cache__has_key(cache, key) == \E e \in cache : e.key = key

svn_cache__get(cache, key) == (CHOOSE e \in cache : e.key = key).page

svn_cache__set(cache, key, page) ==
  {e \in cache : e.key # key} \cup {[key |-> key, page |-> page]}

\* a key made of the first revision of the index file of the revision
page_cache_key_of_index(revision, page) ==
  [revision |-> base_revision(revision),
   is_packed |-> svn_fs_fs__is_packed_rev(revision),
   page |-> page]

\* svn_fs_fs__page_cache_key_t
page_cache_key(revision, page) ==
  [revision |-> revision,
   is_packed |-> svn_fs_fs__is_packed_rev(revision),
   page |-> page]

----------------------------------------------------------------------------
(* log-to-phys index: reader *)

\* apr_size_t arithmetic wraps; the model narrows the width to 30 bits
APR_SIZE_MODULUS == 1073741824

\* What a read of page_table[k] yields when k lies outside the array
\* (undefined behaviour: any l2p_page_table_entry_t)
GarbageEntries ==
  { [offset |-> 0, entry_count |-> 0, size |-> 0],
    [offset |-> 0, entry_count |-> 1, size |-> 1],
    [offset |-> 0, entry_count |-> l2p_page_size + 2, size |-> 4] }

\* page_table[k], k counted from 0 as in the source: the entries the read
\* can yield
page_table_at(page_table, k) ==
  IF k >= 0 /\ k < Len(page_table)
    THEN {page_table[k + 1]}
    ELSE GarbageEntries

\* exclusive prefix sums: page_table_index[0 .. revision_count]
RECURSIVE l2p_page_table_index(_)
l2p_page_table_index(page_counts) ==
  IF page_counts = <<>>
    THEN <<0>>
    ELSE LET prev == l2p_page_table_index(SubSeq(page_counts, 1,
                                                 Len(page_counts) - 1))
         IN Append(prev, prev[Len(prev)] + page_counts[Len(page_counts)])

\* "correct the page description offsets"
l2p_page_table(values, offset) ==
  [page \in 1..(Len(values) \div 2) |->
     [offset |-> offset
                   + SumSeq([q \in 1..(page - 1) |-> values[2 * q - 1]]),
      entry_count |-> values[2 * page],
      size |-> values[2 * page - 1]]]

\* get_l2p_header_body: [err, header, stream]; on success the caller finds
\* the header in the header cache as well
get_l2p_header_body(stream, file) ==
  With(IF stream.open
         THEN [err |-> SVN_NO_ERROR, stream |-> stream]
         ELSE packed_stream_open(file), LAMBDA o :
    IF o.err # SVN_NO_ERROR THEN [err |-> o.err, stream |-> o.stream] ELSE
  With(packed_stream_get_n(packed_stream_seek(o.stream, 0), file.data, 4,
                           <<>>), LAMBDA h :
    IF h.err # SVN_NO_ERROR THEN [err |-> h.err, stream |-> h.stream] ELSE
  With(packed_stream_get_n(h.stream, file.data, h.values[3], <<>>), LAMBDA r :
    IF r.err # SVN_NO_ERROR THEN [err |-> r.err, stream |-> r.stream] ELSE
  With(packed_stream_get_n(r.stream, file.data, 2 * h.values[4], <<>>),
       LAMBDA t :
    IF t.err # SVN_NO_ERROR THEN [err |-> t.err, stream |-> t.stream] ELSE
    [err |-> SVN_NO_ERROR,
     stream |-> t.stream,
     header |-> [first_revision   |-> h.values[1],
                 page_size        |-> h.values[2],
                 revision_count   |-> h.values[3],
                 page_table_index |-> l2p_page_table_index(r.values),
                 page_table       |-> l2p_page_table(t.values,
                                        packed_stream_offset(t.stream))]]))))

\* l2p_page_info_copy with the relative revision kept signed, so that a
\* revision below first_revision passes the range check
l2p_page_info_copy_signed(revision, item_index, header) ==
  LET rel_revision == revision - header.first_revision
      pti(k)       == header.page_table_index[k + 1]
      page_no      == item_index \div header.page_size
  IN IF rel_revision >= header.revision_count
       THEN {[err |-> "SVN_ERR_FS_ITEM_INDEX_REVISION"]}
     ELSE IF rel_revision < 0
       THEN {[err |-> SVN_NO_ERROR,
              page_offset |-> item_index % header.page_size,
              page_no |-> page_no,
              entry |-> e, first_revision |-> header.first_revision]
               : e \in GarbageEntries}
     ELSE IF item_index < header.page_size
       THEN {[err |-> SVN_NO_ERROR, page_offset |-> item_index, page_no |-> 0,
              entry |-> e, first_revision |-> header.first_revision]
               : e \in page_table_at(header.page_table, pti(rel_revision))}
     ELSE IF pti(rel_revision + 1) - pti(rel_revision) > page_no
       THEN {[err |-> SVN_NO_ERROR,
              page_offset |-> item_index % header.page_size,
              page_no |-> page_no,
              entry |-> header.page_table[pti(rel_revision) + page_no + 1],
              first_revision |-> header.first_revision]}
       ELSE {[err |-> SVN_NO_ERROR,
              page_offset |-> header.page_size + 1,
              page_no |-> page_no,
              entry |-> e, first_revision |-> header.first_revision]
               : e \in page_table_at(header.page_table,
                                     pti(rel_revision + 1) - 1)}

\* l2p_page_info_copy: the set of results the copy can produce (one, unless
\* it reads outside the page table)
l2p_page_info_copy(revision, item_index, header) ==
  LET rel_revision == (revision - header.first_revision) % APR_SIZE_MODULUS
      pti(k)       == header.page_table_index[k + 1]
      page_no      == item_index \div header.page_size
  IN IF rel_revision >= header.revision_count
       THEN {[err |-> "SVN_ERR_FS_ITEM_INDEX_REVISION"]}
     ELSE IF item_index < header.page_size
       THEN {[err |-> SVN_NO_ERROR, page_offset |-> item_index, page_no |-> 0,
              entry |-> e, first_revision |-> header.first_revision]
               : e \in page_table_at(header.page_table, pti(rel_revision))}
     ELSE IF pti(rel_revision + 1) - pti(rel_revision) > page_no
       THEN {[err |-> SVN_NO_ERROR,
              page_offset |-> item_index % header.page_size,
              page_no |-> page_no,
              entry |-> header.page_table[pti(rel_revision) + page_no + 1],
              first_revision |-> header.first_revision]}
       ELSE {[err |-> SVN_NO_ERROR,
              page_offset |-> header.page_size + 1,
              page_no |-> page_no,
              entry |-> e, first_revision |-> header.first_revision]
               : e \in page_table_at(header.page_table,
                                     pti(rel_revision + 1) - 1)}

\* the position in page_table, counted from 0, of the entry
\* l2p_page_info_copy copies for a revision the header covers
l2p_page_info_entry_index(revision, item_index, header) ==
  LET rel_revision == (revision - header.first_revision) % APR_SIZE_MODULUS
      pti(k)       == header.page_table_index[k + 1]
      page_no      == item_index \div header.page_size
  IN IF item_index < header.page_size
       THEN pti(rel_revision)
     ELSE IF pti(rel_revision + 1) - pti(rel_revision) > page_no
       THEN pti(rel_revision) + page_no
       ELSE pti(rel_revision + 1) - 1

\* get_l2p_page_info: from the header cache, else from the index file
\* (which caches the header).  A set of [err, info, stream, header_cache].
get_l2p_page_info(revision, item_index, file, header_cache) ==
  IF header_cache.cached
    THEN {[err |-> i.err, info |-> i, stream |-> NullStream,
           header_cache |-> header_cache]
            : i \in l2p_page_info_copy(revision, item_index,
                                       header_cache.value)}
    ELSE With(get_l2p_header_body(NullStream, file), LAMBDA b :
           IF b.err # SVN_NO_ERROR
             THEN {[err |-> b.err, info |-> [err |-> b.err],
                    stream |-> b.stream, header_cache |-> header_cache]}
             ELSE {[err |-> i.err, info |-> i, stream |-> b.stream,
                    header_cache |-> [cached |-> TRUE, value |-> b.header]]
                     : i \in l2p_page_info_copy(revision, item_index,
                                                b.header)})

\* the running sums of get_l2p_page: offsets[i] = last_value - 1
RECURSIVE l2p_page_offsets(_, _)
l2p_page_offsets(values, last_value) ==
  IF values = <<>>
    THEN <<>>
    ELSE LET v == last_value + decode_int(Head(values))
         IN <<v - 1>> \o l2p_page_offsets(Tail(values), v)

\* get_l2p_page: [err, page, stream]
get_l2p_page(stream, file, table_entry) ==
  With(IF stream.open
         THEN [err |-> SVN_NO_ERROR, stream |-> stream]
         ELSE packed_stream_open(file), LAMBDA o :
    IF o.err # SVN_NO_ERROR THEN [err |-> o.err, stream |-> o.stream] ELSE
  With(packed_stream_get_n(packed_stream_seek(o.stream, table_entry.offset),
                           file.data, table_entry.entry_count, <<>>),
       LAMBDA g :
    IF g.err # SVN_NO_ERROR THEN [err |-> g.err, stream |-> g.stream] ELSE
    [err |-> SVN_NO_ERROR,
     stream |-> g.stream,
     page |-> [entry_count |-> table_entry.entry_count,
               offsets |-> l2p_page_offsets(g.values, 0)]]))

\* l2p_page_get_entry: [err, offset]
l2p_page_get_entry(page_offset, page) ==
  IF page.entry_count <= page_offset
    THEN [err |-> "SVN_ERR_FS_ITEM_INDEX_OVERFLOW", offset |-> 0]
    ELSE [err |-> SVN_NO_ERROR, offset |-> page.offsets[page_offset + 1]]

\* l2p_page_table_access_func via get_l2p_page_table: the page table of
\* REVISION from the header cache; empty when the header is not cached or
\* the revision is not covered
get_l2p_page_table(header_cache, revision) ==
  IF ~header_cache.cached
    THEN <<>>
    ELSE LET header == header_cache.value
             rel_revision ==
               (revision - header.first_revision) % APR_SIZE_MODULUS
         IN IF rel_revision < header.revision_count
              THEN SubSeq(header.page_table,
                          header.page_table_index[rel_revision + 1] + 1,
                          header.page_table_index[rel_revision + 2])
              ELSE <<>>

\* the loop without the test of the page's range against the window
RECURSIVE l2p_prefetch_loop_anywhere(_, _, _, _, _, _, _, _, _, _)
l2p_prefetch_loop_anywhere(pages, i, end, stream, file, page_cache, revision, exlcuded_page_no, min_offset, max_offset) ==
  IF i >= Len(pages) \/ end
    THEN [err |-> SVN_NO_ERROR, end |-> end, stream |-> stream,
          page_cache |-> page_cache]
  ELSE IF i = exlcuded_page_no
    THEN l2p_prefetch_loop_anywhere(pages, i + 1, end, stream, file,
           page_cache, revision, exlcuded_page_no, min_offset, max_offset)
  ELSE IF svn_cache__has_key(page_cache, page_cache_key(revision, i))
    THEN l2p_prefetch_loop_anywhere(pages, i + 1, TRUE, stream, file,
           page_cache, revision, exlcuded_page_no, min_offset, max_offset)
  ELSE With(get_l2p_page(stream, file, pages[i + 1]), LAMBDA p :
         IF p.err # SVN_NO_ERROR
           THEN [err |-> p.err, end |-> FALSE, stream |-> p.stream,
                 page_cache |-> page_cache]
           ELSE l2p_prefetch_loop_anywhere(pages, i + 1, FALSE, p.stream,
                  file,
                  svn_cache__set(page_cache, page_cache_key(revision, i),
                                 p.page),
                  revision, exlcuded_page_no, min_offset, max_offset))

\* the loop of prefetch_l2p_pages over the pages of REVISION:
\* [err, end, stream, page_cache]
RECURSIVE l2p_prefetch_loop(_, _, _, _, _, _, _, _, _, _)
l2p_prefetch_loop(pages, i, end, stream, file, page_cache, revision, exlcuded_page_no, min_offset, max_offset) ==
  IF i >= Len(pages) \/ end
    THEN [err |-> SVN_NO_ERROR, end |-> end, stream |-> stream,
          page_cache |-> page_cache]
  ELSE IF i = exlcuded_page_no
    THEN l2p_prefetch_loop(pages, i + 1, end, stream, file, page_cache,
                           revision, exlcuded_page_no, min_offset, max_offset)
  ELSE IF \/ pages[i + 1].offset < min_offset
          \/ pages[i + 1].offset + pages[i + 1].size > max_offset
          \/ svn_cache__has_key(page_cache, page_cache_key(revision, i))
    THEN l2p_prefetch_loop(pages, i + 1, TRUE, stream, file, page_cache,
                           revision, exlcuded_page_no, min_offset, max_offset)
  ELSE With(get_l2p_page(stream, file, pages[i + 1]), LAMBDA p :
         IF p.err # SVN_NO_ERROR
           THEN [err |-> p.err, end |-> FALSE, stream |-> p.stream,
                 page_cache |-> page_cache]
           ELSE l2p_prefetch_loop(pages, i + 1, FALSE, p.stream, file,
                  svn_cache__set(page_cache, page_cache_key(revision, i),
                                 p.page),
                  revision, exlcuded_page_no, min_offset, max_offset))

\* a prefetch that gives up at once
prefetch_l2p_pages_none(stream, file, header_cache, page_cache, revision, exlcuded_page_no, min_offset, max_offset) ==
  [err |-> SVN_NO_ERROR, end |-> TRUE, stream |-> stream,
   page_cache |-> page_cache]

\* prefetch_l2p_pages: [err, end, stream, page_cache]
prefetch_l2p_pages(stream, file, header_cache, page_cache, revision, exlcuded_page_no, min_offset, max_offset) ==
  With(get_l2p_page_table(header_cache, revision), LAMBDA pages :
    IF Len(pages) = 0
      THEN [err |-> SVN_NO_ERROR, end |-> TRUE, stream |-> stream,
            page_cache |-> page_cache]
      ELSE l2p_prefetch_loop(pages, 0, FALSE, stream, file, page_cache,
                             revision, exlcuded_page_no, min_offset,
                             max_offset))

\* "prefetch pages from following and preceding revisions": the two loops of
\* l2p_index_lookup; STEP is 1 (up to LIMIT, exclusive) or -1 (down to LIMIT)
RECURSIVE l2p_prefetch_revisions(_, _, _, _, _, _, _, _, _, _, _, _)
l2p_prefetch_revisions(prefetch_revision, step, limit, end, stream, file, header_cache, page_cache, revision, page_no, min_offset, max_offset) ==
  IF end \/ (step = 1 /\ prefetch_revision >= limit)
         \/ (step = -1 /\ prefetch_revision < limit)
    THEN [err |-> SVN_NO_ERROR, stream |-> stream, page_cache |-> page_cache]
    ELSE With(prefetch_l2p_pages(stream, file, header_cache, page_cache,
                prefetch_revision,
                IF step = 1 /\ prefetch_revision = revision
                  THEN page_no ELSE -1,
                min_offset, max_offset), LAMBDA p :
           IF p.err # SVN_NO_ERROR
             THEN [err |-> p.err, stream |-> p.stream,
                   page_cache |-> p.page_cache]
             ELSE l2p_prefetch_revisions(prefetch_revision + step, step,
                    limit, p.end, p.stream, file, header_cache,
                    p.page_cache, revision, page_no, min_offset, max_offset))

\* the result of l2p_index_lookup and the caches it leaves
l2p_lookup_result(err, offset, header_cache, page_cache) ==
  [err |-> err, offset |-> offset, header_cache |-> header_cache,
   page_cache |-> page_cache]

\* the !is_cached branch of l2p_index_lookup: read the page, cache it, get
\* the entry, then prefetch following and preceding revisions
l2p_read_and_prefetch(revision, info, key, stream, file, header_cache, page_cache) ==
  LET last_revision == info.first_revision
                         + (IF key.is_packed THEN max_files_per_dir ELSE 1)
      max_offset    == APR_ALIGN(info.entry.offset + info.entry.size,
                                 L2P_WINDOW)
      min_offset    == max_offset - L2P_WINDOW
  IN
  With(get_l2p_page(stream, file, info.entry), LAMBDA p :
    IF p.err # SVN_NO_ERROR
      THEN l2p_lookup_result(p.err, 0, header_cache, page_cache) ELSE
  With(svn_cache__set(page_cache, key, p.page), LAMBDA pc1 :
  With(l2p_page_get_entry(info.page_offset, p.page), LAMBDA e :
    IF e.err # SVN_NO_ERROR
      THEN l2p_lookup_result(e.err, 0, header_cache, pc1) ELSE
  With(l2p_prefetch_revisions(revision, 1, last_revision, FALSE, p.stream,
         file, header_cache, pc1, revision, info.page_no, min_offset,
         max_offset), LAMBDA fwd :
    IF fwd.err # SVN_NO_ERROR
      THEN l2p_lookup_result(fwd.err, 0, header_cache, fwd.page_cache) ELSE
  With(l2p_prefetch_revisions(revision - 1, -1, info.first_revision, FALSE,
         fwd.stream, file, header_cache, fwd.page_cache, revision,
         info.page_no, min_offset, max_offset), LAMBDA bwd :
    IF bwd.err # SVN_NO_ERROR
      THEN l2p_lookup_result(bwd.err, 0, header_cache, bwd.page_cache)
      ELSE l2p_lookup_result(SVN_NO_ERROR, e.offset, header_cache,
                             bwd.page_cache))))))

\* l2p_index_lookup after get_l2p_page_info succeeded with INFO
l2p_lookup_page(revision, info, stream, file, header_cache, page_cache) ==
  With(page_cache_key(revision, info.page_no), LAMBDA key :
    IF svn_cache__has_key(page_cache, key)
      THEN With(l2p_page_get_entry(info.page_offset,
                                   svn_cache__get(page_cache, key)),
                LAMBDA e :
             l2p_lookup_result(e.err, e.offset, header_cache, page_cache))
      ELSE l2p_read_and_prefetch(revision, info, key, stream, file,
                                 header_cache, page_cache))

\* l2p_index_lookup: the set of outcomes [err, offset, header_cache,
\* page_cache] of looking up (REVISION, ITEM_INDEX) with the given caches
l2p_index_lookup(revision, item_index, file, header_cache, page_cache) ==
  { IF i.err # SVN_NO_ERROR
      THEN [err |-> i.err, offset |-> 0, header_cache |-> i.header_cache,
            page_cache |-> page_cache]
      ELSE l2p_lookup_page(revision, i.info, i.stream, file, i.header_cache,
                           page_cache)
    : i \in get_l2p_page_info(revision, item_index, file, header_cache) }

\* What a read of page_table_index[k] yields when k lies outside the array
\* (undefined behaviour: any apr_size_t)
GarbageIndexes == {0, 1}

\* page_table_index[k], k counted from 0: the values the read can yield
page_table_index_at(page_table_index, k) ==
  IF k >= 0 /\ k < Len(page_table_index)
    THEN {page_table_index[k + 1]}
    ELSE GarbageIndexes

\* get_l2p_header: [err, header, header_cache]
get_l2p_header(file, header_cache) ==
  IF header_cache.cached
    THEN [err |-> SVN_NO_ERROR, header |-> header_cache.value,
          header_cache |-> header_cache]
    ELSE With(get_l2p_header_body(NullStream, file), LAMBDA b :
           IF b.err # SVN_NO_ERROR
             THEN [err |-> b.err, header_cache |-> header_cache]
             ELSE [err |-> SVN_NO_ERROR, header |-> b.header,
                   header_cache |-> [cached |-> TRUE, value |-> b.header]])

\* the item counts svn_fs_fs__l2p_get_max_ids can compute for REVISION:
\* full_page_count * page_size + the entry count of the last page, in
\* unsigned arithmetic (narrowed like apr_size_t)
l2p_item_count(header, revision) ==
  { ((last_page_index - first_page_index - 1) * header.page_size
       + e.entry_count) % APR_SIZE_MODULUS
    : <<first_page_index, last_page_index, e>> \in
        { <<f, l, e>> \in
            page_table_index_at(header.page_table_index,
                                revision - header.first_revision)
            \X page_table_index_at(header.page_table_index,
                                   revision - header.first_revision + 1)
            \X (GarbageEntries \cup
                  {header.page_table[q] : q \in 1..Len(header.page_table)}) :
            e \in page_table_at(header.page_table, l - 1) } }

\* the position in page_table, counted from 0, of the entry whose
\* entry_count svn_fs_fs__l2p_get_max_ids adds for a revision the header
\* covers: last_page_index - 1
l2p_item_count_entry_index(header, revision) ==
  header.page_table_index[revision - header.first_revision + 2] - 1

\* the loop of svn_fs_fs__l2p_get_max_ids over revision .. last_rev - 1; all
\* revisions of the modelled shard share one index, so "read the next
\* index" finds the same header
RECURSIVE l2p_max_ids_loop(_, _, _)
l2p_max_ids_loop(header, revision, last_rev) ==
  IF revision >= last_rev
    THEN {<<>>}
    ELSE {<<item_count>> \o rest :
            item_count \in l2p_item_count(header, revision),
            rest \in l2p_max_ids_loop(header, revision + 1, last_rev)}

\* svn_fs_fs__l2p_get_max_ids: the set of outcomes [err, max_ids,
\* header_cache]
svn_fs_fs__l2p_get_max_ids(start_rev, count, file, header_cache) ==
  With(get_l2p_header(file, header_cache), LAMBDA h :
    IF h.err # SVN_NO_ERROR
      THEN {[err |-> h.err, max_ids |-> <<>>,
             header_cache |-> h.header_cache]}
      ELSE {[err |-> SVN_NO_ERROR, max_ids |-> ids,
             header_cache |-> h.header_cache]
              : ids \in l2p_max_ids_loop(h.header, start_rev,
                                         start_rev + count)})

\* a scan of the proto index that goes on to its last matching record
RECURSIVE l2p_proto_index_lookup_last(_, _, _)
l2p_proto_index_lookup_last(proto, k, item_index) ==
  IF k > Len(proto)
    THEN -1
    ELSE With(l2p_proto_index_lookup_last(proto, k + 1, item_index),
              LAMBDA later :
           IF later = -1 /\ proto[k].item_index = item_index
             THEN proto[k].offset - 1
             ELSE later)

\* l2p_proto_index_lookup: the offset of the first record of the proto
\* index whose item index is ITEM_INDEX, -1 when there is none
RECURSIVE l2p_proto_index_lookup(_, _, _)
l2p_proto_index_lookup(proto, k, item_index) ==
  IF k > Len(proto)
    THEN -1
    ELSE IF proto[k].item_index = item_index
           THEN proto[k].offset - 1
           ELSE l2p_proto_index_lookup(proto, k + 1, item_index)

\* no transaction given (txn_id == NULL)
NoTxn == [given |-> FALSE, revision |-> SVN_INVALID_REVNUM]

\* svn_fs_fs__use_log_addressing
svn_fs_fs__use_log_addressing(fs, revision) ==
  revision >= fs.min_log_addressing_rev

\* svn_fs_fs__is_packed_rev on the filesystem description FS
fs_is_packed_rev(fs, revision) == revision < fs.min_unpacked_rev

\* svn_fs_fs__get_packed_offset: the start of REVISION in its pack file
svn_fs_fs__get_packed_offset(fs, revision) ==
  fs.manifest[(revision % max_files_per_dir) + 1]

\* the outcome of a branch of svn_fs_fs__item_offset that touches no cache
item_offset_result(absolute_position, header_cache, page_cache) ==
  {[err |-> SVN_NO_ERROR, offset |-> absolute_position,
    header_cache |-> header_cache, page_cache |-> page_cache]}

\* the same with the transaction's own revision deciding the addressing
svn_fs_fs__item_offset_by_revision(fs, revision, txn_id, item_index, proto, file, header_cache, page_cache) ==
  IF txn_id.given
    THEN IF svn_fs_fs__use_log_addressing(fs, txn_id.revision)
           THEN item_offset_result(
                  l2p_proto_index_lookup(proto, 1, item_index),
                  header_cache, page_cache)
           ELSE item_offset_result(item_index, header_cache, page_cache)
    ELSE IF svn_fs_fs__use_log_addressing(fs, revision)
           THEN l2p_index_lookup(revision, item_index, file,
                                 header_cache, page_cache)
           ELSE IF fs_is_packed_rev(fs, revision)
                  THEN item_offset_result(
                         svn_fs_fs__get_packed_offset(fs, revision)
                           + item_index,
                         header_cache, page_cache)
                  ELSE item_offset_result(item_index, header_cache,
                                          page_cache)

\* svn_fs_fs__item_offset: the set of outcomes [err, offset, header_cache,
\* page_cache]
svn_fs_fs__item_offset(fs, revision, txn_id, item_index, proto, file, header_cache, page_cache) ==
  IF txn_id.given
    THEN IF svn_fs_fs__use_log_addressing(fs, txn_id.revision + 1)
           THEN item_offset_result(
                  l2p_proto_index_lookup(proto, 1, item_index),
                  header_cache, page_cache)
           ELSE item_offset_result(item_index, header_cache, page_cache)
    ELSE IF svn_fs_fs__use_log_addressing(fs, revision)
           THEN l2p_index_lookup(revision, item_index, file,
                                 header_cache, page_cache)
           ELSE IF fs_is_packed_rev(fs, revision)
                  THEN item_offset_result(
                         svn_fs_fs__get_packed_offset(fs, revision)
                           + item_index,
                         header_cache, page_cache)
                  ELSE item_offset_result(item_index, header_cache,
                                          page_cache)

----------------------------------------------------------------------------
(* phys-to-log index: proto index and builder *)

\* svn_fs_fs__p2l_entry_t
p2l_entry(offset, size, type, revision, number, fnv1_checksum) ==
  [offset |-> offset, size |-> size, type |-> type,
   revision |-> revision, number |-> number,
   fnv1_checksum |-> fnv1_checksum]

\* the values the uninitialised entry.fnv1_checksum can hold when the
\* builder writes the entry it makes up at the end of the proto index
UninitializedChecksums == {0, 187}

\* a builder that lets an entry run one more cluster before it ends pages
p2l_end_pages_late(st, entry_end) ==
  IF entry_end - st.last_page_end > 2 * p2l_page_size
    THEN [st EXCEPT !.table_sizes = Append(@, Len(st.buffer)
                                                - st.last_buffer_size),
                    !.last_buffer_size = Len(st.buffer),
                    !.last_page_end = @ + p2l_page_size,
                    !.new_page = TRUE]
    ELSE st

\* "end pages if entry is extending beyond their boundaries"
RECURSIVE p2l_end_pages(_, _)
p2l_end_pages(st, entry_end) ==
  IF entry_end - st.last_page_end > p2l_page_size
    THEN p2l_end_pages(
           [st EXCEPT !.table_sizes = Append(@, Len(st.buffer)
                                                  - st.last_buffer_size),
                      !.last_buffer_size = Len(st.buffer),
                      !.last_page_end = @ + p2l_page_size,
                      !.new_page = TRUE],
           entry_end)
    ELSE st

\* a builder that starts a table with the offset of its cluster
p2l_start_page_cluster(st, entry, revision) ==
  IF st.new_page
    THEN [st EXCEPT !.buffer = @ \o encode_uint(st.last_page_end),
                    !.last_revision = revision,
                    !.last_compound = 0]
    ELSE st

\* "this entry starts a new table -> store its offset"
p2l_start_page(st, entry, revision) ==
  IF st.new_page
    THEN [st EXCEPT !.buffer = @ \o encode_uint(entry.offset),
                    !.last_revision = revision,
                    !.last_compound = 0]
    ELSE st

\* "write simple item entry"
p2l_write_entry(st, entry) ==
  LET rev_diff      == entry.revision - st.last_revision
      compound      == entry.number * 8 + entry.type
      compound_diff == compound - st.last_compound
  IN [st EXCEPT !.buffer = @ \o encode_uint(entry.size)
                             \o encode_int(compound_diff)
                             \o encode_int(rev_diff)
                             \o encode_uint(entry.fnv1_checksum),
                !.last_revision = entry.revision,
                !.last_compound = compound,
                !.last_entry_end = entry.offset + entry.size]

\* one pass of the while loop for the entry read (or made up at eof)
p2l_process_entry(st, entry, revision) ==
  LET s0 == [st EXCEPT !.new_page = (Len(st.buffer) = 0)]
      s1 == p2l_end_pages(s0, entry.offset + entry.size)
      s2 == p2l_start_page(s1, entry, revision)
  IN p2l_write_entry(s2, entry)

\* a builder that leaves the revisions as the transaction wrote them
p2l_fixup_entry_keep(entry, revision) == entry

\* "fix-up items created when the txn's target rev was unknown"
p2l_fixup_entry(entry, revision) ==
  IF entry.revision = SVN_INVALID_REVNUM
    THEN [entry EXCEPT !.revision = revision]
    ELSE entry

\* the "unused" section the builder appends at eof
p2l_eof_entry(st, fnv1_checksum) ==
  p2l_entry(st.last_entry_end,
            APR_ALIGN(st.last_entry_end, p2l_page_size) - st.last_entry_end,
            0, st.last_revision, 0, fnv1_checksum)

\* "process all entries until we fail due to EOF"
RECURSIVE p2l_create_loop(_, _, _, _, _)
p2l_create_loop(proto, k, st, revision, fnv1_checksum) ==
  IF k > Len(proto)
    THEN p2l_process_entry([st EXCEPT !.file_size = st.last_entry_end],
                           p2l_eof_entry(st, fnv1_checksum), revision)
    ELSE p2l_create_loop(proto, k + 1,
           p2l_process_entry(st, p2l_fixup_entry(proto[k], revision),
                             revision),
           revision, fnv1_checksum)

\* the locals of svn_fs_fs__p2l_index_create before its loop
p2l_create_start(revision) ==
  [table_sizes |-> <<>>, buffer |-> <<>>,
   last_revision |-> revision, last_compound |-> 0,
   last_entry_end |-> 0, last_page_end |-> 0,
   last_buffer_size |-> 0, file_size |-> 0,
   new_page |-> FALSE]

\* the tables and page contents collected, "store length of last table"
\* included
p2l_collect(proto, revision, fnv1_checksum) ==
  LET st == p2l_create_loop(proto, 1, p2l_create_start(revision),
                            revision, fnv1_checksum)
  IN [st EXCEPT !.table_sizes = Append(@, Len(st.buffer)
                                            - st.last_buffer_size)]

\* the index file svn_fs_fs__p2l_index_create can write: one content for
\* each value of the uninitialised checksum
svn_fs_fs__p2l_index_create(proto, revision) ==
  { LET st == p2l_collect(proto, revision, c)
    IN encode_uint(revision)
         \o encode_uint(st.file_size)
         \o encode_uint(p2l_page_size)
         \o encode_uint(Len(st.table_sizes))
         \o Concat([i \in 1..Len(st.table_sizes) |->
                      encode_uint(st.table_sizes[i])])
         \o st.buffer
    : c \in UninitializedChecksums }

----------------------------------------------------------------------------
(* phys-to-log index: readers *)

\* offsets[0 .. page_count]: running sums of the page sizes
RECURSIVE p2l_header_offsets(_, _)
p2l_header_offsets(sizes, first) ==
  IF sizes = <<>>
    THEN <<first>>
    ELSE <<first>> \o p2l_header_offsets(Tail(sizes), first + Head(sizes))

\* get_p2l_header: [err, stream, header, header_cache]
get_p2l_header(stream, file, header_cache) ==
  IF header_cache.cached
    THEN [err |-> SVN_NO_ERROR, stream |-> stream,
          header |-> header_cache.value, header_cache |-> header_cache]
    ELSE
  With(IF stream.open
         THEN [err |-> SVN_NO_ERROR, stream |-> packed_stream_seek(stream, 0)]
         ELSE packed_stream_open(file), LAMBDA o :
    IF o.err # SVN_NO_ERROR
      THEN [err |-> o.err, stream |-> o.stream, header_cache |-> header_cache]
      ELSE
  With(packed_stream_get_n(o.stream, file.data, 4, <<>>), LAMBDA h :
    IF h.err # SVN_NO_ERROR
      THEN [err |-> h.err, stream |-> h.stream, header_cache |-> header_cache]
      ELSE
  With(packed_stream_get_n(h.stream, file.data, h.values[4], <<>>), LAMBDA t :
    IF t.err # SVN_NO_ERROR
      THEN [err |-> t.err, stream |-> t.stream, header_cache |-> header_cache]
      ELSE
  With([first_revision |-> h.values[1],
        file_size      |-> h.values[2],
        page_size      |-> h.values[3],
        page_count     |-> h.values[4],
        offsets        |-> p2l_header_offsets(t.values,
                             packed_stream_offset(t.stream))], LAMBDA header :
    [err |-> SVN_NO_ERROR, stream |-> t.stream, header |-> header,
     header_cache |-> [cached |-> TRUE, value |-> header]]))))

\* p2l_page_info_copy: BATON filled for BATON->OFFSET = offset
p2l_page_info_copy(offset, header) ==
  IF offset \div header.page_size < header.page_count
    THEN [offset         |-> offset,
          page_no        |-> offset \div header.page_size,
          start_offset   |-> header.offsets[offset \div header.page_size + 1],
          next_offset    |-> header.offsets[offset \div header.page_size + 2],
          page_size      |-> header.page_size,
          first_revision |-> header.first_revision,
          page_start     |-> header.page_size
                               * (offset \div header.page_size),
          page_count     |-> header.page_count]
    ELSE [offset         |-> offset,
          page_no        |-> header.page_count,
          start_offset   |-> header.offsets[header.page_count + 1],
          next_offset    |-> header.offsets[header.page_count + 1],
          page_size      |-> 0,
          first_revision |-> header.first_revision,
          page_start     |-> header.page_size * header.page_count,
          page_count     |-> header.page_count]

\* get_p2l_page_info: [err, info, stream, header_cache]
get_p2l_page_info(offset, stream, file, header_cache) ==
  IF header_cache.cached
    THEN [err |-> SVN_NO_ERROR,
          info |-> p2l_page_info_copy(offset, header_cache.value),
          stream |-> stream, header_cache |-> header_cache]
    ELSE With(get_p2l_header(stream, file, header_cache), LAMBDA h :
           IF h.err # SVN_NO_ERROR
             THEN [err |-> h.err, stream |-> h.stream,
                   header_cache |-> h.header_cache]
             ELSE [err |-> SVN_NO_ERROR,
                   info |-> p2l_page_info_copy(offset, h.header),
                   stream |-> h.stream, header_cache |-> h.header_cache])

\* read_entry: [err, stream, entry, item_offset, last_revision,
\* last_compound]; the checksums of the model fit apr_uint32_t
read_entry(stream, data, item_offset, last_revision, last_compound) ==
  With(packed_stream_get_n(stream, data, 4, <<>>), LAMBDA g :
    IF g.err # SVN_NO_ERROR
      THEN [err |-> g.err, stream |-> g.stream]
      ELSE
  With(last_compound + decode_int(g.values[2]), LAMBDA compound :
  With(last_revision + decode_int(g.values[3]), LAMBDA revision :
    [err |-> SVN_NO_ERROR, stream |-> g.stream,
     entry |-> p2l_entry(item_offset, g.values[1], compound % 8,
                         revision, compound \div 8, g.values[4]),
     item_offset |-> item_offset + g.values[1],
     last_revision |-> revision,
     last_compound |-> compound])))

\* "read all entries of this page": the do ... while (offset < next_offset)
RECURSIVE p2l_read_entries(_, _, _, _, _, _, _)
p2l_read_entries(stream, data, item_offset, last_revision, last_compound, next_offset, result) ==
  With(read_entry(stream, data, item_offset, last_revision, last_compound),
       LAMBDA r :
    IF r.err # SVN_NO_ERROR
      THEN [err |-> r.err, stream |-> r.stream]
    ELSE IF packed_stream_offset(r.stream) < next_offset
      THEN p2l_read_entries(r.stream, data, r.item_offset, r.last_revision,
                            r.last_compound, next_offset,
                            Append(result, r.entry))
      ELSE [err |-> SVN_NO_ERROR, stream |-> r.stream,
            item_offset |-> r.item_offset,
            result |-> Append(result, r.entry)])

\* a page read that stops at the end of the page's own entries
p2l_read_next_page_entry_skipped(stream, data, start_revision, result) ==
  [err |-> SVN_NO_ERROR, stream |-> stream, entries |-> result]

\* "if we haven't covered the cluster end yet, we must read the first entry
\* of the next page": [err, stream, entries]
p2l_read_next_page_entry(stream, data, start_revision, result) ==
  With(packed_stream_get(stream, data), LAMBDA g :
    IF g.err # SVN_NO_ERROR THEN [err |-> g.err, stream |-> g.stream] ELSE
  With(read_entry(g.stream, data, g.value, start_revision, 0), LAMBDA x :
    IF x.err # SVN_NO_ERROR
      THEN [err |-> x.err, stream |-> x.stream]
      ELSE [err |-> SVN_NO_ERROR, stream |-> x.stream,
            entries |-> Append(result, x.entry)]))

\* get_p2l_page: [err, stream, entries]
get_p2l_page(stream, file, start_revision, start_offset, next_offset, page_start, page_size) ==
  With(IF stream.open
         THEN [err |-> SVN_NO_ERROR, stream |-> stream]
         ELSE packed_stream_open(file), LAMBDA o :
    IF o.err # SVN_NO_ERROR THEN [err |-> o.err, stream |-> o.stream] ELSE
  With(packed_stream_get(packed_stream_seek(o.stream, start_offset),
                         file.data), LAMBDA g :
    IF g.err # SVN_NO_ERROR THEN [err |-> g.err, stream |-> g.stream] ELSE
  With(p2l_read_entries(g.stream, file.data, g.value, start_revision, 0,
                        next_offset, <<>>), LAMBDA p :
    IF p.err # SVN_NO_ERROR THEN [err |-> p.err, stream |-> p.stream]
    ELSE IF p.item_offset < page_start + page_size
      THEN p2l_read_next_page_entry(p.stream, file.data, start_revision,
                                    p.result)
      ELSE [err |-> SVN_NO_ERROR, stream |-> p.stream,
            entries |-> p.result])))

\* what prefetch_p2l_page hands back
p2l_prefetch_result(err, end, leaking_bucket, stream, baton, header_cache, page_cache) ==
  [err |-> err, end |-> end, leaking_bucket |-> leaking_bucket,
   stream |-> stream, baton |-> baton, header_cache |-> header_cache,
   page_cache |-> page_cache]

\* a prefetch that goes on however many pages it finds cached
prefetch_p2l_page_all(leaking_bucket, stream, file, baton, min_offset, header_cache, page_cache) ==
  With(get_p2l_page_info(baton.offset, stream, file, header_cache), LAMBDA i :
    IF i.err # SVN_NO_ERROR
      THEN p2l_prefetch_result(i.err, FALSE, leaking_bucket, i.stream, baton,
                               i.header_cache, page_cache)
    ELSE IF i.info.start_offset < min_offset
      THEN p2l_prefetch_result(SVN_NO_ERROR, TRUE, leaking_bucket, i.stream,
                               i.info, i.header_cache, page_cache)
    ELSE IF svn_cache__has_key(page_cache,
              page_cache_key(i.info.first_revision, i.info.page_no))
      THEN p2l_prefetch_result(SVN_NO_ERROR, FALSE, leaking_bucket,
                               i.stream, i.info, i.header_cache, page_cache)
      ELSE
  With(get_p2l_page(i.stream, file, i.info.first_revision,
                    i.info.start_offset, i.info.next_offset,
                    i.info.page_start, i.info.page_size), LAMBDA pg :
    IF pg.err # SVN_NO_ERROR
      THEN p2l_prefetch_result(pg.err, FALSE, leaking_bucket, pg.stream,
                               i.info, i.header_cache, page_cache)
      ELSE p2l_prefetch_result(SVN_NO_ERROR, FALSE, leaking_bucket,
             pg.stream, i.info, i.header_cache,
             svn_cache__set(page_cache,
               page_cache_key(i.info.first_revision, i.info.page_no),
               pg.entries))))

\* prefetch_p2l_page: [err, end, leaking_bucket, stream, baton,
\* header_cache, page_cache]
prefetch_p2l_page(leaking_bucket, stream, file, baton, min_offset, header_cache, page_cache) ==
  With(get_p2l_page_info(baton.offset, stream, file, header_cache), LAMBDA i :
    IF i.err # SVN_NO_ERROR
      THEN p2l_prefetch_result(i.err, FALSE, leaking_bucket, i.stream, baton,
                               i.header_cache, page_cache)
    ELSE IF i.info.start_offset < min_offset
      THEN p2l_prefetch_result(SVN_NO_ERROR, TRUE, leaking_bucket, i.stream,
                               i.info, i.header_cache, page_cache)
    ELSE IF svn_cache__has_key(page_cache,
              page_cache_key(i.info.first_revision, i.info.page_no))
      THEN p2l_prefetch_result(SVN_NO_ERROR, leaking_bucket - 1 = 0,
                               leaking_bucket - 1, i.stream, i.info,
                               i.header_cache, page_cache)
      ELSE
  With(get_p2l_page(i.stream, file, i.info.first_revision,
                    i.info.start_offset, i.info.next_offset,
                    i.info.page_start, i.info.page_size), LAMBDA pg :
    IF pg.err # SVN_NO_ERROR
      THEN p2l_prefetch_result(pg.err, FALSE, leaking_bucket + 1, pg.stream,
                               i.info, i.header_cache, page_cache)
      ELSE p2l_prefetch_result(SVN_NO_ERROR, FALSE, leaking_bucket + 1,
             pg.stream, i.info, i.header_cache,
             svn_cache__set(page_cache,
               page_cache_key(i.info.first_revision, i.info.page_no),
               pg.entries))))

\* keys that take the last page of the index for a non-existent one
get_p2l_keys_short(revision, offset, stream, file, header_cache) ==
  With(get_p2l_page_info(offset, stream, file, header_cache), LAMBDA i :
    IF i.err # SVN_NO_ERROR
      THEN [err |-> i.err, stream |-> i.stream,
            header_cache |-> i.header_cache]
    ELSE IF i.info.page_count <= i.info.page_no + 1
      THEN [err |-> "SVN_ERR_FS_ITEM_INDEX_OVERFLOW", stream |-> NullStream,
            header_cache |-> i.header_cache]
      ELSE [err |-> SVN_NO_ERROR, page_info |-> i.info,
            key |-> page_cache_key(i.info.first_revision, i.info.page_no),
            stream |-> i.stream, header_cache |-> i.header_cache])

\* get_p2l_keys: [err, page_info, key, stream, header_cache]
get_p2l_keys(revision, offset, stream, file, header_cache) ==
  With(get_p2l_page_info(offset, stream, file, header_cache), LAMBDA i :
    IF i.err # SVN_NO_ERROR
      THEN [err |-> i.err, stream |-> i.stream,
            header_cache |-> i.header_cache]
    ELSE IF i.info.page_count <= i.info.page_no
      THEN [err |-> "SVN_ERR_FS_ITEM_INDEX_OVERFLOW", stream |-> NullStream,
            header_cache |-> i.header_cache]
      ELSE [err |-> SVN_NO_ERROR, page_info |-> i.info,
            key |-> page_cache_key(i.info.first_revision, i.info.page_no),
            stream |-> i.stream, header_cache |-> i.header_cache])

\* the caches and the stream a P2L lookup step leaves, with its result
p2l_lookup_result(err, entries, stream, header_cache, page_cache) ==
  [err |-> err, entries |-> entries, stream |-> stream,
   header_cache |-> header_cache, page_cache |-> page_cache]

\* "pre-fetch preceding pages"
RECURSIVE p2l_prefetch_preceding(_, _, _, _, _, _, _, _)
p2l_prefetch_preceding(end, leaking_bucket, stream, file, baton, min_offset, header_cache, page_cache) ==
  IF baton.offset >= baton.page_size /\ ~end
    THEN With(prefetch_p2l_page(leaking_bucket, stream, file,
                [baton EXCEPT !.offset = @ - baton.page_size],
                min_offset, header_cache, page_cache), LAMBDA r :
           IF r.err # SVN_NO_ERROR
             THEN p2l_lookup_result(r.err, <<>>, r.stream, r.header_cache,
                                    r.page_cache)
             ELSE p2l_prefetch_preceding(r.end, r.leaking_bucket, r.stream,
                    file, r.baton, min_offset, r.header_cache, r.page_cache))
    ELSE p2l_lookup_result(SVN_NO_ERROR, <<>>, stream, header_cache,
                           page_cache)

\* "pre-fetch following pages"
RECURSIVE p2l_prefetch_following(_, _, _, _, _, _, _, _, _)
p2l_prefetch_following(end, leaking_bucket, stream, file, baton, min_offset, max_offset, header_cache, page_cache) ==
  IF /\ baton.next_offset < max_offset
     /\ baton.page_no + 1 < baton.page_count
     /\ ~end
    THEN With(prefetch_p2l_page(leaking_bucket, stream, file,
                [baton EXCEPT !.offset = @ + baton.page_size],
                min_offset, header_cache, page_cache), LAMBDA r :
           IF r.err # SVN_NO_ERROR
             THEN p2l_lookup_result(r.err, <<>>, r.stream, r.header_cache,
                                    r.page_cache)
             ELSE p2l_prefetch_following(r.end, r.leaking_bucket, r.stream,
                    file, r.baton, min_offset, max_offset,
                    r.header_cache, r.page_cache))
    ELSE p2l_lookup_result(SVN_NO_ERROR, <<>>, stream, header_cache,
                           page_cache)

\* the !is_cached branch of p2l_index_lookup: prefetch the preceding pages,
\* read and cache the page asked for, prefetch the following pages
p2l_read_and_prefetch(page_info, key, stream, file, header_cache, page_cache) ==
  LET max_offset == APR_ALIGN(page_info.next_offset, block_size)
      min_offset == APR_ALIGN(page_info.start_offset, block_size)
                      - block_size
      first      == [page_info EXCEPT !.offset = page_info.page_start]
  IN
  With(p2l_prefetch_preceding(FALSE, 4, stream, file, first, min_offset,
                              header_cache, page_cache), LAMBDA before :
    IF before.err # SVN_NO_ERROR THEN before ELSE
  With(get_p2l_page(before.stream, file, page_info.first_revision,
                    page_info.start_offset, page_info.next_offset,
                    page_info.page_start, page_info.page_size), LAMBDA pg :
    IF pg.err # SVN_NO_ERROR
      THEN p2l_lookup_result(pg.err, <<>>, pg.stream, before.header_cache,
                             before.page_cache)
      ELSE
  With(p2l_prefetch_following(FALSE, 4, pg.stream, file, first, min_offset,
         max_offset, before.header_cache,
         svn_cache__set(before.page_cache, key, pg.entries)), LAMBDA after :
    IF after.err # SVN_NO_ERROR
      THEN after
      ELSE [after EXCEPT !.entries = pg.entries])))

\* a lookup that reads the page from the index file every time
p2l_index_lookup_uncached(revision, offset, stream, file, header_cache, page_cache) ==
  With(get_p2l_keys(revision, offset, stream, file, header_cache), LAMBDA k :
    IF k.err # SVN_NO_ERROR
      THEN p2l_lookup_result(k.err, <<>>, k.stream, k.header_cache,
                             page_cache)
      ELSE p2l_read_and_prefetch(k.page_info, k.key, k.stream, file,
                                 k.header_cache, page_cache))

\* p2l_index_lookup: [err, entries, stream, header_cache, page_cache]
p2l_index_lookup(revision, offset, stream, file, header_cache, page_cache) ==
  With(get_p2l_keys(revision, offset, stream, file, header_cache), LAMBDA k :
    IF k.err # SVN_NO_ERROR
      THEN p2l_lookup_result(k.err, <<>>, k.stream, k.header_cache,
                             page_cache)
    ELSE IF svn_cache__has_key(page_cache, k.key)
      THEN p2l_lookup_result(SVN_NO_ERROR, svn_cache__get(page_cache, k.key),
                             k.stream, k.header_cache, page_cache)
      ELSE p2l_read_and_prefetch(k.page_info, k.key, k.stream, file,
                                 k.header_cache, page_cache))

\* svn_fs_fs__p2l_index_lookup
svn_fs_fs__p2l_index_lookup(revision, offset, file, header_cache, page_cache) ==
  p2l_index_lookup(revision, offset, NullStream, file,
                   header_cache, page_cache)

\* svn_sort__bsearch_lower_bound with compare_p2l_entry_offsets: the index
\* (from 0) of the first entry whose offset is not below OFFSET
RECURSIVE bsearch_lower_bound(_, _, _, _)
bsearch_lower_bound(offset, entries, lower, upper) ==
  IF lower <= upper
    THEN IF entries[lower + (upper - lower) \div 2 + 1].offset < offset
           THEN bsearch_lower_bound(offset, entries,
                                    lower + (upper - lower) \div 2 + 1, upper)
           ELSE bsearch_lower_bound(offset, entries, lower,
                                    lower + (upper - lower) \div 2 - 1)
    ELSE lower

\* a search that takes the entry in front of the lower bound
get_p2l_entry_before(entries, offset) ==
  With(bsearch_lower_bound(offset, entries, 0, Len(entries) - 1), LAMBDA idx :
    IF idx > 0 /\ idx <= Len(entries)
      THEN <<entries[idx]>>
      ELSE <<>>)

\* the "perfect match" test both lookup paths apply: <<entry>>, or <<>>
\* for NULL
get_p2l_entry_from_cached_page(entries, offset) ==
  With(bsearch_lower_bound(offset, entries, 0, Len(entries) - 1), LAMBDA idx :
    IF idx < Len(entries) /\ entries[idx + 1].offset = offset
      THEN <<entries[idx + 1]>>
      ELSE <<>>)

\* what p2l_entry_lookup hands back, with the caches it leaves
p2l_entry_result(err, entry, header_cache, page_cache) ==
  [err |-> err, entry |-> entry, header_cache |-> header_cache,
   page_cache |-> page_cache]

\* p2l_entry_lookup: [err, entry, header_cache, page_cache]
p2l_entry_lookup(revision, offset, stream, file, header_cache, page_cache) ==
  With(get_p2l_keys(revision, offset, stream, file, header_cache), LAMBDA k :
    IF k.err # SVN_NO_ERROR
      THEN p2l_entry_result(k.err, <<>>, k.header_cache, page_cache)
    ELSE IF svn_cache__has_key(page_cache, k.key)
      THEN p2l_entry_result(SVN_NO_ERROR,
             get_p2l_entry_from_cached_page(
               svn_cache__get(page_cache, k.key), offset),
             k.header_cache, page_cache)
      ELSE
  With(p2l_index_lookup(revision, offset, k.stream, file, k.header_cache,
                        page_cache), LAMBDA l :
    IF l.err # SVN_NO_ERROR
      THEN p2l_entry_result(l.err, <<>>, l.header_cache, l.page_cache)
      ELSE p2l_entry_result(SVN_NO_ERROR,
             get_p2l_entry_from_cached_page(l.entries, offset),
             l.header_cache, l.page_cache)))

\* svn_fs_fs__p2l_entry_lookup
svn_fs_fs__p2l_entry_lookup(revision, offset, file, header_cache, page_cache) ==
  p2l_entry_lookup(revision, offset, NullStream, file,
                   header_cache, page_cache)

\* a reader that reports the file size rounded up to the page size
svn_fs_fs__p2l_get_max_offset_aligned(revision, file, header_cache) ==
  With(get_p2l_header(NullStream, file, header_cache), LAMBDA h :
    IF h.err # SVN_NO_ERROR
      THEN [err |-> h.err, offset |-> 0, header_cache |-> h.header_cache]
      ELSE [err |-> SVN_NO_ERROR,
            offset |-> APR_ALIGN(h.header.file_size, h.header.page_size),
            header_cache |-> h.header_cache])

\* svn_fs_fs__p2l_get_max_offset: [err, offset, header_cache]
svn_fs_fs__p2l_get_max_offset(revision, file, header_cache) ==
  IF header_cache.cached
    THEN [err |-> SVN_NO_ERROR, offset |-> header_cache.value.file_size,
          header_cache |-> header_cache]
    ELSE With(get_p2l_header(NullStream, file, header_cache), LAMBDA h :
           IF h.err # SVN_NO_ERROR
             THEN [err |-> h.err, offset |-> 0,
                   header_cache |-> h.header_cache]
             ELSE [err |-> SVN_NO_ERROR, offset |-> h.header.file_size,
                   header_cache |-> h.header_cache])

----------------------------------------------------------------------------
(* Standard (de-)serialization functions.  A serialized item is the        *)
(* struct followed by the arrays added as leaves, [struct, data]; a        *)
(* pointer of the struct to an array becomes the position of the array's   *)
(* first element in DATA, and 0 when the pointer is NULL.                  *)

svn_temp_serializer__init(struct) == [struct |-> struct, data |-> <<>>]

\* the first COUNT elements of the array behind STRUCT.FIELD are appended
svn_temp_serializer__add_leaf(context, field, count) ==
  [struct |-> [context.struct EXCEPT ![field] = Len(context.data) + 1],
   data   |-> context.data \o SubSeq(context.struct[field], 1, count)]

svn_temp_serializer__get(context) == context

\* the pointer is bound to the array that starts at its position in DATA;
\* the users of the struct find COUNT elements there
svn_temp_deserializer__resolve(blob, field, count) ==
  [blob EXCEPT !.struct[field] =
     SubSeq(blob.data, blob.struct[field], blob.struct[field] + count - 1)]

svn_fs_fs__serialize_l2p_header(header) ==
  With(header.page_table_index[header.revision_count + 1],
       LAMBDA page_count :
    svn_temp_serializer__get(
      svn_temp_serializer__add_leaf(
        svn_temp_serializer__add_leaf(svn_temp_serializer__init(header),
                                      "page_table_index",
                                      header.revision_count + 1),
        "page_table", page_count)))

svn_fs_fs__deserialize_l2p_header(blob) ==
  With(svn_temp_deserializer__resolve(blob, "page_table_index",
                                      blob.struct.revision_count + 1),
       LAMBDA b :
    svn_temp_deserializer__resolve(
      b, "page_table",
      b.struct.page_table_index[b.struct.revision_count + 1]).struct)

svn_fs_fs__serialize_l2p_page(page) ==
  svn_temp_serializer__get(
    svn_temp_serializer__add_leaf(svn_temp_serializer__init(page),
                                  "offsets", page.entry_count))

svn_fs_fs__deserialize_l2p_page(blob) ==
  svn_temp_deserializer__resolve(blob, "offsets",
                                 blob.struct.entry_count).struct

svn_fs_fs__serialize_p2l_header(header) ==
  svn_temp_serializer__get(
    svn_temp_serializer__add_leaf(svn_temp_serializer__init(header),
                                  "offsets", header.page_count + 1))

svn_fs_fs__deserialize_p2l_header(blob) ==
  svn_temp_deserializer__resolve(blob, "offsets",
                                 blob.struct.page_count + 1).struct

\* the number of elements apr_array_make asks for in get_p2l_page
P2L_PAGE_NALLOC == 16

\* the capacity of an array made for NALLOC elements after NELTS pushes:
\* apr_array_push doubles it when the array is full
RECURSIVE apr_array_nalloc(_, _)
apr_array_nalloc(nalloc, nelts) ==
  IF nelts <= nalloc THEN nalloc ELSE apr_array_nalloc(2 * nalloc, nelts)

\* the apr_array_header_t get_p2l_page returns for ENTRIES
p2l_page_array(entries, pool) ==
  [pool     |-> pool,
   elt_size |-> "sizeof(svn_fs_fs__p2l_entry_t)",
   nelts    |-> Len(entries),
   nalloc   |-> apr_array_nalloc(P2L_PAGE_NALLOC, Len(entries)),
   elts     |-> entries]

svn_fs_fs__serialize_p2l_page(page) ==
  svn_temp_serializer__get(
    svn_temp_serializer__add_leaf(svn_temp_serializer__init(page),
                                  "elts", page.nelts))

\* a deserializer that leaves the members of the array header alone
svn_fs_fs__deserialize_p2l_page_unpatched(blob, pool) ==
  svn_temp_deserializer__resolve(blob, "elts", blob.struct.nelts).struct

svn_fs_fs__deserialize_p2l_page(blob, pool) ==
  With(svn_temp_deserializer__resolve(blob, "elts", blob.struct.nelts).struct,
       LAMBDA page :
    [page EXCEPT !.pool = pool, !.nalloc = page.nelts])

----------------------------------------------------------------------------
(* The L2P state machine: a transaction appends to the proto index, the    *)
(* index is built from it once, then readers look items up while the       *)
(* caches fill and evict.                                                  *)

\* item indexes the writers use
L2PItemIndexes == 0..2

\* the rev file offset of the item the K-th proto record (from 0) describes
L2PItemOffset(k) == 70 * (k + 1) - 1

\* the REVISION argument of svn_fs_fs__l2p_index_create
L2PFirstRevisions == {0, 1}

\* what the readers ask for
L2PLookupRevisions == 0..(max_files_per_dir - 1)
L2PLookupItems == 0..(2 * l2p_page_size - 1)
L2PMaxIdCounts == 1..2

\* filesystems: logical addressing from revision 0 on (the shard is
\* packed), and physical addressing up to the end of the shard, packed or
\* not; the manifest gives the revisions' starts in the pack file
FsManifest == <<0, 100, 250>>
FsConfigs ==
  {[min_log_addressing_rev |-> 0, min_unpacked_rev |-> max_files_per_dir,
    manifest |-> FsManifest],
   [min_log_addressing_rev |-> max_files_per_dir,
    min_unpacked_rev |-> max_files_per_dir, manifest |-> FsManifest],
   [min_log_addressing_rev |-> max_files_per_dir, min_unpacked_rev |-> 0,
    manifest |-> FsManifest]}

\* no transaction, or a transaction based on the first or the last
\* revision of the shard
TxnIds == {NoTxn} \cup {[given |-> TRUE, revision |-> r]
                          : r \in {0, max_files_per_dir - 1}}

Init ==
  /\ l2p_proto = <<>>
  /\ l2p_index = NoFile
  /\ l2p_header_cache = EmptyHeaderCache
  /\ l2p_page_cache = {}
  /\ p2l_proto = <<>>
  /\ p2l_index = NoFile
  /\ p2l_header_cache = EmptyHeaderCache
  /\ p2l_page_cache = {}
  /\ packed_numbers = <<>>
  /\ packed_file = <<>>
  /\ packed_stream = NullStream
  /\ readers = [r \in Readers |-> IdleReader]
  /\ index_writer = IdleWriter
  /\ serialized = NoItem
  /\ p2l_reader = IdleP2LReader
  /\ temp_context = NoContext
  /\ key_cache = {}
  /\ report = NoReport

\* svn_fs_fs__l2p_proto_index_add_entry
L2PProtoAddEntry ==
  /\ ~l2p_index.exists
  /\ Len(l2p_proto) < MaxL2PRecords
  /\ \E offset \in {-1, L2PItemOffset(Len(l2p_proto))},
        item_index \in L2PItemIndexes :
       l2p_proto' = Append(l2p_proto, l2p_add_entry_entry(offset, item_index))
  /\ UNCHANGED <<l2p_index, l2p_header_cache, l2p_page_cache, p2l_vars, stream_vars, readers, index_writer, serialized, other_vars>>

\* svn_fs_fs__l2p_proto_index_add_revision
L2PProtoAddRevision ==
  /\ ~l2p_index.exists
  /\ Len(l2p_proto) < MaxL2PRecords
  /\ l2p_proto' = Append(l2p_proto, l2p_add_revision_entry)
  /\ UNCHANGED <<l2p_index, l2p_header_cache, l2p_page_cache, p2l_vars, stream_vars, readers, index_writer, serialized, other_vars>>

\* svn_fs_fs__l2p_index_create
L2PIndexCreate ==
  /\ ~l2p_index.exists
  /\ \E revision \in L2PFirstRevisions :
       l2p_index' = [exists |-> TRUE,
                     data |-> svn_fs_fs__l2p_index_create(l2p_proto, revision)]
  /\ UNCHANGED <<l2p_proto, l2p_header_cache, l2p_page_cache, p2l_vars, stream_vars, readers, index_writer, serialized, other_vars>>

\* svn_fs_fs__item_offset
L2PIndexLookup ==
  /\ \E fs \in FsConfigs, txn_id \in TxnIds,
        revision \in L2PLookupRevisions, item_index \in L2PLookupItems :
       \E o \in svn_fs_fs__item_offset(fs, revision, txn_id, item_index,
                                       l2p_proto, l2p_index,
                                       l2p_header_cache, l2p_page_cache) :
         /\ l2p_header_cache' = o.header_cache
         /\ l2p_page_cache' = o.page_cache
  /\ UNCHANGED <<l2p_proto, l2p_index, p2l_vars, stream_vars, readers, index_writer, serialized, other_vars>>

\* svn_fs_fs__l2p_get_max_ids
L2PGetMaxIds ==
  /\ \E start_rev \in L2PLookupRevisions, count \in L2PMaxIdCounts :
       \E o \in svn_fs_fs__l2p_get_max_ids(start_rev, count, l2p_index,
                                           l2p_header_cache) :
         l2p_header_cache' = o.header_cache
  /\ UNCHANGED <<l2p_proto, l2p_index, l2p_page_cache, p2l_vars, stream_vars, readers, index_writer, serialized, other_vars>>

\* the cache drops the L2P header
L2PEvictHeader ==
  /\ l2p_header_cache.cached
  /\ l2p_header_cache' = EmptyHeaderCache
  /\ UNCHANGED <<l2p_proto, l2p_index, l2p_page_cache, p2l_vars, stream_vars, readers, index_writer, serialized, other_vars>>

\* the cache drops an L2P page
L2PEvictPage ==
  /\ \E e \in l2p_page_cache : l2p_page_cache' = l2p_page_cache \ {e}
  /\ UNCHANGED <<l2p_proto, l2p_index, l2p_header_cache, p2l_vars, stream_vars, readers, index_writer, serialized, other_vars>>

Next ==
  \/ L2PProtoAddEntry
  \/ L2PProtoAddRevision
  \/ L2PIndexCreate
  \/ L2PIndexLookup
  \/ L2PGetMaxIds
  \/ L2PEvictHeader
  \/ L2PEvictPage

Spec == Init /\ [][Next]_vars

----------------------------------------------------------------------------
(* The P2L state machine: the proto index grows by contiguous entries, the *)
(* index is built from it once, then readers query it while the caches     *)
(* fill and evict.                                                         *)

\* where the first item of the rev file can start
P2LFirstOffsets == {0, 60}

\* item sizes: within a cluster, up to or across a cluster boundary when
\* added to one another, across two boundaries
P2LItemSizes == {20, 44, 130}

\* <<type, revision, number, fnv1_checksum>> of the items written
P2LItems == {<<1, SVN_INVALID_REVNUM, 1, 170>>, <<2, 1, 2, 187>>}

\* the REVISION argument of svn_fs_fs__p2l_index_create
P2LFirstRevisions == {0}

\* what the readers ask for: a revision of the shard (it selects the index
\* file and the cache keys only), the start of a cluster for a page, the
\* start of an item, or not, for an entry
P2LLookupRevisions == {0}
P2LPageOffsets == {q * p2l_page_size : q \in 0..(MaxP2LFileSize \div p2l_page_size)}
P2LEntryOffsets == {0, 20, 60, 64, 80, 84, 150, 190}

\* the end of the last entry of the proto index
p2l_proto_end ==
  IF p2l_proto = <<>>
    THEN 0
    ELSE p2l_proto[Len(p2l_proto)].offset + p2l_proto[Len(p2l_proto)].size

\* svn_fs_fs__p2l_proto_index_add_entry
P2LProtoAddEntry ==
  /\ ~p2l_index.exists
  /\ Len(p2l_proto) < MaxP2LEntries
  /\ \E offset \in (IF p2l_proto = <<>> THEN P2LFirstOffsets
                                       ELSE {p2l_proto_end}),
        size \in P2LItemSizes, item \in P2LItems :
       /\ offset + size <= MaxP2LFileSize
       /\ p2l_proto' = Append(p2l_proto,
                              p2l_entry(offset, size, item[1], item[2],
                                        item[3], item[4]))
  /\ UNCHANGED <<p2l_index, p2l_header_cache, p2l_page_cache, l2p_vars, stream_vars, readers, index_writer, serialized, other_vars>>

\* svn_fs_fs__p2l_index_create
P2LIndexCreate ==
  /\ ~p2l_index.exists
  /\ \E revision \in P2LFirstRevisions :
       \E data \in svn_fs_fs__p2l_index_create(p2l_proto, revision) :
         p2l_index' = [exists |-> TRUE, data |-> data]
  /\ UNCHANGED <<p2l_proto, p2l_header_cache, p2l_page_cache, l2p_vars, stream_vars, readers, index_writer, serialized, other_vars>>

\* svn_fs_fs__p2l_index_lookup
P2LIndexLookup ==
  /\ \E revision \in P2LLookupRevisions, offset \in P2LPageOffsets :
       \E r \in {svn_fs_fs__p2l_index_lookup(revision, offset, p2l_index,
                     p2l_header_cache, p2l_page_cache)} :
         /\ p2l_header_cache' = r.header_cache
         /\ p2l_page_cache' = r.page_cache
  /\ UNCHANGED <<p2l_proto, p2l_index, l2p_vars, stream_vars, readers, index_writer, serialized, other_vars>>

\* svn_fs_fs__p2l_entry_lookup
P2LEntryLookup ==
  /\ \E revision \in P2LLookupRevisions, offset \in P2LEntryOffsets :
       \E r \in {svn_fs_fs__p2l_entry_lookup(revision, offset, p2l_index,
                     p2l_header_cache, p2l_page_cache)} :
         /\ p2l_header_cache' = r.header_cache
         /\ p2l_page_cache' = r.page_cache
  /\ UNCHANGED <<p2l_proto, p2l_index, l2p_vars, stream_vars, readers, index_writer, serialized, other_vars>>

\* svn_fs_fs__p2l_get_max_offset
P2LGetMaxOffset ==
  /\ \E revision \in P2LLookupRevisions :
       p2l_header_cache' =
         svn_fs_fs__p2l_get_max_offset(revision, p2l_index,
                                       p2l_header_cache).header_cache
  /\ UNCHANGED <<p2l_proto, p2l_index, p2l_page_cache, l2p_vars, stream_vars, readers, index_writer, serialized, other_vars>>

\* the cache drops the P2L header
P2LEvictHeader ==
  /\ p2l_header_cache.cached
  /\ p2l_header_cache' = EmptyHeaderCache
  /\ UNCHANGED <<p2l_proto, p2l_index, p2l_page_cache, l2p_vars, stream_vars, readers, index_writer, serialized, other_vars>>

\* the cache drops a P2L page
P2LEvictPage ==
  /\ \E e \in p2l_page_cache : p2l_page_cache' = p2l_page_cache \ {e}
  /\ UNCHANGED <<p2l_proto, p2l_index, p2l_header_cache, l2p_vars, stream_vars, readers, index_writer, serialized, other_vars>>

NextP2L ==
  \/ P2LProtoAddEntry
  \/ P2LIndexCreate
  \/ P2LIndexLookup
  \/ P2LEntryLookup
  \/ P2LGetMaxOffset
  \/ P2LEvictHeader
  \/ P2LEvictPage

SpecP2L == Init /\ [][NextP2L]_vars

----------------------------------------------------------------------------
(* Concurrent readers: l2p_index_lookup step by step.  Every access to a
   shared cache is one step; the reads of the index file through the
   reader's own stream happen within the step that follows the cache miss. *)

\* the index of the log add_entry(-1, 2); add_revision; add_entry(209, 2)
\* (two revisions of two pages), of the log add_entry(69, 0) and of the
\* empty log, for revision 0
ReaderLogs ==
  {<<l2p_add_entry_entry(-1, 2), l2p_add_revision_entry,
     l2p_add_entry_entry(209, 2)>>,
   <<l2p_add_entry_entry(69, 0)>>,
   <<>>}

\* the lookups the readers make: [revision, item_index]
ReaderLookups ==
  {[revision |-> 0, item_index |-> 0], [revision |-> 0, item_index |-> 2],
   [revision |-> 1, item_index |-> 2], [revision |-> 1, item_index |-> 1]}

\* the indexes have been created, the caches are empty
InitReaders ==
  /\ l2p_proto \in ReaderLogs
  /\ l2p_index = [exists |-> TRUE,
                  data |-> svn_fs_fs__l2p_index_create(l2p_proto, 0)]
  /\ l2p_header_cache = EmptyHeaderCache
  /\ l2p_page_cache = {}
  /\ p2l_proto = <<>>
  /\ p2l_index = NoFile
  /\ p2l_header_cache = EmptyHeaderCache
  /\ p2l_page_cache = {}
  /\ packed_numbers = <<>>
  /\ packed_file = <<>>
  /\ packed_stream = NullStream
  /\ readers = [r \in Readers |-> IdleReader]
  /\ index_writer = IdleWriter
  /\ serialized = NoItem
  /\ p2l_reader = IdleP2LReader
  /\ temp_context = NoContext
  /\ key_cache = {}
  /\ report = NoReport

\* l2p_index_lookup returns ERR or OFFSET
reader_return(rec, err, offset) ==
  [IdleReader EXCEPT !.pc = "done", !.revision = rec.revision,
                     !.item_index = rec.item_index, !.err = err,
                     !.offset = offset]

\* the heads of the two loops over the revisions in l2p_index_lookup, after
\* prefetch_l2p_pages returned for REC.prefetch_revision
reader_next_revision(rec) ==
  IF rec.dir = 1
    THEN IF /\ rec.prefetch_revision + 1
                 < rec.info.first_revision
                     + (IF svn_fs_fs__is_packed_rev(rec.revision)
                          THEN max_files_per_dir ELSE 1)
            /\ ~rec.end
           THEN [rec EXCEPT !.pc = "prefetch_table",
                            !.prefetch_revision = @ + 1,
                            !.pages = <<>>, !.i = 0]
           ELSE IF rec.revision - 1 >= rec.info.first_revision
                  THEN [rec EXCEPT !.pc = "prefetch_table", !.dir = -1,
                                   !.prefetch_revision = rec.revision - 1,
                                   !.end = FALSE, !.pages = <<>>, !.i = 0]
                  ELSE reader_return(rec, SVN_NO_ERROR, rec.offset)
    ELSE IF rec.prefetch_revision - 1 >= rec.info.first_revision /\ ~rec.end
           THEN [rec EXCEPT !.pc = "prefetch_table",
                            !.prefetch_revision = @ - 1,
                            !.pages = <<>>, !.i = 0]
           ELSE reader_return(rec, SVN_NO_ERROR, rec.offset)

\* the head of the loop over the pages in prefetch_l2p_pages, up to the
\* next access to the page cache
RECURSIVE reader_next_page(_)
reader_next_page(rec) ==
  IF rec.i >= Len(rec.pages) \/ rec.end
    THEN reader_next_revision(rec)
  ELSE IF rec.i = (IF rec.dir = 1 /\ rec.prefetch_revision = rec.revision
                     THEN rec.info.page_no ELSE -1)
    THEN reader_next_page([rec EXCEPT !.i = @ + 1])
  ELSE IF \/ rec.pages[rec.i + 1].offset
               < APR_ALIGN(rec.info.entry.offset + rec.info.entry.size,
                           L2P_WINDOW) - L2P_WINDOW
          \/ rec.pages[rec.i + 1].offset + rec.pages[rec.i + 1].size
               > APR_ALIGN(rec.info.entry.offset + rec.info.entry.size,
                           L2P_WINDOW)
    THEN reader_next_page([rec EXCEPT !.i = @ + 1, !.end = TRUE])
    ELSE [rec EXCEPT !.pc = "prefetch_has_key"]

\* get_l2p_page_info after the header was found or read: copy the page
\* info from HEADER, the set of continuations
reader_page_info(rec, header) ==
  {IF info.err # SVN_NO_ERROR
     THEN reader_return(rec, info.err, 0)
     ELSE [rec EXCEPT !.pc = "get_page", !.info = info, !.header = <<>>]
   : info \in l2p_page_info_copy(rec.revision, rec.item_index, header)}

\* a caller starts l2p_index_lookup
ReaderStart ==
  /\ \E r \in Readers, lookup \in ReaderLookups :
       /\ readers[r].pc = "idle"
       /\ readers' = [readers EXCEPT ![r] =
            [IdleReader EXCEPT !.pc = "get_page_info",
                               !.revision = lookup.revision,
                               !.item_index = lookup.item_index]]
  /\ UNCHANGED <<l2p_vars, p2l_vars, stream_vars, index_writer, serialized, other_vars>>

\* get_l2p_page_info: the partial get on the header cache; after a miss
\* the header is read from the file
ReaderGetPageInfo ==
  /\ \E r \in Readers :
       /\ readers[r].pc = "get_page_info"
       /\ IF l2p_header_cache.cached
            THEN \E rec \in reader_page_info(readers[r],
                                              l2p_header_cache.value) :
                   readers' = [readers EXCEPT ![r] = rec]
            ELSE \E b \in {get_l2p_header_body(NullStream, l2p_index)} :
                   readers' = [readers EXCEPT ![r] =
                     IF b.err # SVN_NO_ERROR
                       THEN reader_return(readers[r], b.err, 0)
                       ELSE [readers[r] EXCEPT !.pc = "set_header",
                                               !.header = b.header,
                                               !.stream = b.stream]]
  /\ UNCHANGED <<l2p_vars, p2l_vars, stream_vars, index_writer, serialized, other_vars>>

\* get_l2p_header_body: the set on the header cache, then the page info
ReaderSetHeader ==
  /\ \E r \in Readers :
       /\ readers[r].pc = "set_header"
       /\ l2p_header_cache' = [cached |-> TRUE, value |-> readers[r].header]
       /\ \E rec \in reader_page_info(readers[r], readers[r].header) :
            readers' = [readers EXCEPT ![r] = rec]
  /\ UNCHANGED <<l2p_proto, l2p_index, l2p_page_cache, p2l_vars, stream_vars, index_writer, serialized, other_vars>>

\* l2p_index_lookup: the partial get on the page cache; after a miss the
\* page is read from the file
ReaderGetPage ==
  /\ \E r \in Readers :
       /\ readers[r].pc = "get_page"
       /\ \E rec \in {readers[r]} :
          \E key \in {page_cache_key(rec.revision, rec.info.page_no)} :
            IF svn_cache__has_key(l2p_page_cache, key)
              THEN \E e \in {l2p_page_get_entry(rec.info.page_offset,
                                svn_cache__get(l2p_page_cache, key))} :
                     readers' = [readers EXCEPT ![r] =
                                   reader_return(rec, e.err, e.offset)]
              ELSE \E p \in {get_l2p_page(rec.stream, l2p_index,
                                           rec.info.entry)} :
                     readers' = [readers EXCEPT ![r] =
                       IF p.err # SVN_NO_ERROR
                         THEN reader_return(rec, p.err, 0)
                         ELSE [rec EXCEPT !.pc = "set_page",
                                          !.page = p.page,
                                          !.stream = p.stream]]
  /\ UNCHANGED <<l2p_vars, p2l_vars, stream_vars, index_writer, serialized, other_vars>>

\* l2p_index_lookup: the set on the page cache, the entry of the page, and
\* the start of the prefetch
ReaderSetPage ==
  /\ \E r \in Readers :
       /\ readers[r].pc = "set_page"
       /\ \E rec \in {readers[r]} :
            /\ l2p_page_cache' =
                 svn_cache__set(l2p_page_cache,
                                page_cache_key(rec.revision, rec.info.page_no),
                                rec.page)
            /\ \E e \in {l2p_page_get_entry(rec.info.page_offset,
                                             rec.page)} :
                 readers' = [readers EXCEPT ![r] =
                   IF e.err # SVN_NO_ERROR
                     THEN reader_return(rec, e.err, 0)
                     ELSE [rec EXCEPT !.pc = "prefetch_table",
                                      !.page = <<>>, !.offset = e.offset,
                                      !.dir = 1,
                                      !.prefetch_revision = rec.revision,
                                      !.end = FALSE, !.pages = <<>>,
                                      !.i = 0]]
  /\ UNCHANGED <<l2p_proto, l2p_index, l2p_header_cache, p2l_vars, stream_vars, index_writer, serialized, other_vars>>

\* prefetch_l2p_pages: the partial get of the page table on the header
\* cache
ReaderPrefetchTable ==
  /\ \E r \in Readers :
       /\ readers[r].pc = "prefetch_table"
       /\ \E pages \in {get_l2p_page_table(l2p_header_cache,
                                            readers[r].prefetch_revision)} :
            readers' = [readers EXCEPT ![r] =
              IF Len(pages) = 0
                THEN reader_next_revision([readers[r] EXCEPT !.end = TRUE])
                ELSE reader_next_page([readers[r] EXCEPT !.pages = pages,
                                                         !.i = 0,
                                                         !.end = FALSE])]
  /\ UNCHANGED <<l2p_vars, p2l_vars, stream_vars, index_writer, serialized, other_vars>>

\* prefetch_l2p_pages: has_key on the page cache; an uncached page is read
\* from the file
ReaderPrefetchHasKey ==
  /\ \E r \in Readers :
       /\ readers[r].pc = "prefetch_has_key"
       /\ \E rec \in {readers[r]} :
            IF svn_cache__has_key(l2p_page_cache,
                 page_cache_key(rec.prefetch_revision, rec.i))
              THEN readers' = [readers EXCEPT ![r] =
                     reader_next_revision([rec EXCEPT !.end = TRUE])]
              ELSE \E p \in {get_l2p_page(rec.stream, l2p_index,
                                           rec.pages[rec.i + 1])} :
                     readers' = [readers EXCEPT ![r] =
                       IF p.err # SVN_NO_ERROR
                         THEN reader_return(rec, p.err, 0)
                         ELSE [rec EXCEPT !.pc = "prefetch_set",
                                          !.page = p.page,
                                          !.stream = p.stream]]
  /\ UNCHANGED <<l2p_vars, p2l_vars, stream_vars, index_writer, serialized, other_vars>>

\* prefetch_l2p_pages: the set on the page cache
ReaderPrefetchSet ==
  /\ \E r \in Readers :
       /\ readers[r].pc = "prefetch_set"
       /\ \E rec \in {readers[r]} :
            /\ l2p_page_cache' =
                 svn_cache__set(l2p_page_cache,
                                page_cache_key(rec.prefetch_revision, rec.i),
                                rec.page)
            /\ readers' = [readers EXCEPT ![r] =
                 reader_next_page([rec EXCEPT !.page = <<>>, !.i = @ + 1])]
  /\ UNCHANGED <<l2p_proto, l2p_index, l2p_header_cache, p2l_vars, stream_vars, index_writer, serialized, other_vars>>

\* the caller takes the result
ReaderReturn ==
  /\ \E r \in Readers :
       /\ readers[r].pc = "done"
       /\ readers' = [readers EXCEPT ![r] = IdleReader]
  /\ UNCHANGED <<l2p_vars, p2l_vars, stream_vars, index_writer, serialized, other_vars>>

NextReaders ==
  \/ ReaderStart
  \/ ReaderGetPageInfo
  \/ ReaderSetHeader
  \/ ReaderGetPage
  \/ ReaderSetPage
  \/ ReaderPrefetchTable
  \/ ReaderPrefetchHasKey
  \/ ReaderPrefetchSet
  \/ ReaderReturn
  \/ L2PEvictHeader
  \/ L2PEvictPage

SpecReaders == InitReaders /\ [][NextReaders]_vars

----------------------------------------------------------------------------
(* svn_fs_fs__l2p_index_create step by step, with lookups of other
   processes in between.  The target file is opened under its own name,
   written through a buffered file and closed. *)

\* a proto index is complete, no index file exists
InitCreate ==
  /\ l2p_proto \in ReaderLogs
  /\ l2p_index = NoFile
  /\ l2p_header_cache = EmptyHeaderCache
  /\ l2p_page_cache = {}
  /\ p2l_proto = <<>>
  /\ p2l_index = NoFile
  /\ p2l_header_cache = EmptyHeaderCache
  /\ p2l_page_cache = {}
  /\ packed_numbers = <<>>
  /\ packed_file = <<>>
  /\ packed_stream = NullStream
  /\ readers = [r \in Readers |-> IdleReader]
  /\ index_writer = IdleWriter
  /\ serialized = NoItem
  /\ p2l_reader = IdleP2LReader
  /\ temp_context = NoContext
  /\ key_cache = {}
  /\ report = NoReport

\* the proto index has been read; "create the target file":
\* svn_io_file_open with APR_CREATE | APR_TRUNCATE | APR_BUFFERED
CreateOpen ==
  /\ index_writer.pc = "idle"
  /\ ~l2p_index.exists
  /\ l2p_index' = [exists |-> TRUE, data |-> <<>>]
  /\ index_writer' = [pc |-> "open",
                      content |-> svn_fs_fs__l2p_index_create(l2p_proto, 0)]
  /\ UNCHANGED <<l2p_proto, l2p_header_cache, l2p_page_cache, p2l_vars,
                 stream_vars, readers, serialized, other_vars>>

\* the file buffer is flushed during one of the writes: more bytes of the
\* content reach the file
CreateFlush ==
  /\ index_writer.pc = "open"
  /\ \E n \in (Len(l2p_index.data) + 1)..(Len(index_writer.content) - 1) :
       l2p_index' = [exists |-> TRUE,
                     data |-> SubSeq(index_writer.content, 1, n)]
  /\ UNCHANGED <<l2p_proto, l2p_header_cache, l2p_page_cache, p2l_vars,
                 stream_vars, readers, index_writer, serialized, other_vars>>

\* svn_io_file_close: the rest of the content reaches the file
CreateClose ==
  /\ index_writer.pc = "open"
  /\ l2p_index' = [exists |-> TRUE, data |-> index_writer.content]
  /\ index_writer' = [index_writer EXCEPT !.pc = "closed"]
  /\ UNCHANGED <<l2p_proto, l2p_header_cache, l2p_page_cache, p2l_vars,
                 stream_vars, readers, serialized, other_vars>>

\* svn_io_set_file_read_only
CreateSetReadOnly ==
  /\ index_writer.pc = "closed"
  /\ index_writer' = [index_writer EXCEPT !.pc = "read_only"]
  /\ UNCHANGED <<l2p_vars, p2l_vars, stream_vars, readers, serialized, other_vars>>

NextCreate ==
  \/ CreateOpen
  \/ CreateFlush
  \/ CreateClose
  \/ CreateSetReadOnly
  \/ L2PIndexLookup
  \/ L2PEvictHeader
  \/ L2PEvictPage

SpecCreate == InitCreate /\ [][NextCreate]_vars

----------------------------------------------------------------------------
(* State machine of the packed number stream *)

\* numbers of one, two and the most bytes, unsigned and signed
PackedInputs ==
  {[signed |-> FALSE, value |-> v]
     : v \in {1, 200, APR_UINT64_MODULUS - 1}}
  \cup {[signed |-> TRUE, value |-> v]
          : v \in {-3, 0 - APR_UINT64_MODULUS \div 2,
                   APR_UINT64_MODULUS \div 2 - 1}}

\* the BLOCK_SIZE arguments of packed_stream_open: smaller than the
\* longest number the reader allows for, the configured size, and a size
\* the files fit into
PackedBlockSizes == {8, block_size, 32}

\* encode_uint / encode_int and a write of the bytes to the file
PackedWrite ==
  /\ ~packed_stream.open
  /\ Len(packed_numbers) < MaxPackedNumbers
  /\ \E n \in PackedInputs :
       /\ packed_numbers' = Append(packed_numbers, n)
       /\ packed_file' = packed_file \o (IF n.signed
                                           THEN encode_int(n.value)
                                           ELSE encode_uint(n.value))
  /\ UNCHANGED <<packed_stream, l2p_vars, p2l_vars, readers, index_writer, serialized, other_vars>>

\* packed_stream_open
PackedOpen ==
  /\ ~packed_stream.open
  /\ packed_numbers # <<>>
  /\ \E size \in PackedBlockSizes :
       packed_stream' = [NewStream EXCEPT !.block_size = size]
  /\ UNCHANGED <<packed_numbers, packed_file, l2p_vars, p2l_vars, readers, index_writer, serialized, other_vars>>

\* packed_stream_get
PackedGet ==
  /\ packed_stream.open
  /\ packed_stream' = packed_stream_get(packed_stream, packed_file).stream
  /\ UNCHANGED <<packed_numbers, packed_file, l2p_vars, p2l_vars, readers, index_writer, serialized, other_vars>>

\* packed_stream_seek
PackedSeek ==
  /\ packed_stream.open
  /\ \E offset \in 0..Len(packed_file) :
       packed_stream' = packed_stream_seek(packed_stream, offset)
  /\ UNCHANGED <<packed_numbers, packed_file, l2p_vars, p2l_vars, readers, index_writer, serialized, other_vars>>

NextStream ==
  \/ PackedWrite
  \/ PackedOpen
  \/ PackedGet
  \/ PackedSeek

SpecStream == Init /\ [][NextStream]_vars

----------------------------------------------------------------------------
(* The caches store their values serialized: svn_cache__set serializes     *)
(* the header or page it is given, svn_cache__get deserializes the stored  *)
(* item into the pool of the caller.  The indexes have been built.         *)

\* the L2P proto logs and the P2L proto logs the indexes are built from
SerializedL2PLogs ==
  ReaderLogs \cup {<<l2p_add_entry_entry(69, 0), l2p_add_entry_entry(139, 1),
                     l2p_add_entry_entry(209, 2)>>}
SerializedP2LLogs ==
  {<<>>,
   <<p2l_entry(0, 20, 2, 1, 2, 187)>>,
   <<p2l_entry(0, 44, 1, SVN_INVALID_REVNUM, 1, 170),
     p2l_entry(44, 130, 2, 1, 2, 187)>>,
   <<p2l_entry(60, 20, 2, 1, 2, 187), p2l_entry(80, 44, 2, 1, 2, 187),
     p2l_entry(124, 20, 1, SVN_INVALID_REVNUM, 1, 170)>>}

\* the pools of the callers
Pools == {"pool", "result_pool"}

InitSerialize ==
  /\ l2p_proto \in SerializedL2PLogs
  /\ l2p_index = [exists |-> TRUE,
                  data |-> svn_fs_fs__l2p_index_create(l2p_proto, 0)]
  /\ l2p_header_cache = EmptyHeaderCache
  /\ l2p_page_cache = {}
  /\ p2l_proto \in SerializedP2LLogs
  /\ \E data \in svn_fs_fs__p2l_index_create(p2l_proto, 0) :
       p2l_index = [exists |-> TRUE, data |-> data]
  /\ p2l_header_cache = EmptyHeaderCache
  /\ p2l_page_cache = {}
  /\ packed_numbers = <<>>
  /\ packed_file = <<>>
  /\ packed_stream = NullStream
  /\ readers = [r \in Readers |-> IdleReader]
  /\ index_writer = IdleWriter
  /\ serialized = NoItem
  /\ p2l_reader = IdleP2LReader
  /\ temp_context = NoContext
  /\ key_cache = {}
  /\ report = NoReport

\* the item IN of kind KIND has been serialized as BLOB
serialized_item(kind, in, blob) ==
  [kind |-> kind, stage |-> "serialized", in |-> in, blob |-> blob]

\* the serialized item has been deserialized as OUT
deserialized_item(out) ==
  [kind |-> serialized.kind, stage |-> "deserialized", in |-> serialized.in,
   blob |-> serialized.blob, out |-> out]

serialize_unchanged ==
  UNCHANGED <<l2p_vars, p2l_vars, stream_vars, readers, index_writer, other_vars>>

\* svn_fs_fs__serialize_l2p_header on the header get_l2p_header_body read
SerializeL2PHeader ==
  /\ \E r \in {get_l2p_header_body(NullStream, l2p_index)} :
       /\ r.err = SVN_NO_ERROR
       /\ serialized' = serialized_item("l2p_header", r.header,
                          svn_fs_fs__serialize_l2p_header(r.header))
  /\ serialize_unchanged

\* svn_fs_fs__deserialize_l2p_header
DeserializeL2PHeader ==
  /\ serialized.kind = "l2p_header"
  /\ serialized.stage = "serialized"
  /\ serialized' = deserialized_item(
                     svn_fs_fs__deserialize_l2p_header(serialized.blob))
  /\ serialize_unchanged

\* svn_fs_fs__serialize_l2p_page on a page get_l2p_page read
SerializeL2PPage ==
  /\ \E h \in {get_l2p_header_body(NullStream, l2p_index)} :
       /\ h.err = SVN_NO_ERROR
       /\ \E k \in 1..Len(h.header.page_table) :
            \E r \in {get_l2p_page(NullStream, l2p_index,
                                   h.header.page_table[k])} :
              /\ r.err = SVN_NO_ERROR
              /\ serialized' = serialized_item("l2p_page", r.page,
                                 svn_fs_fs__serialize_l2p_page(r.page))
  /\ serialize_unchanged

\* svn_fs_fs__deserialize_l2p_page
DeserializeL2PPage ==
  /\ serialized.kind = "l2p_page"
  /\ serialized.stage = "serialized"
  /\ serialized' = deserialized_item(
                     svn_fs_fs__deserialize_l2p_page(serialized.blob))
  /\ serialize_unchanged

\* svn_fs_fs__serialize_p2l_header on the header get_p2l_header read
SerializeP2LHeader ==
  /\ \E r \in {get_p2l_header(NullStream, p2l_index, EmptyHeaderCache)} :
       /\ r.err = SVN_NO_ERROR
       /\ serialized' = serialized_item("p2l_header", r.header,
                          svn_fs_fs__serialize_p2l_header(r.header))
  /\ serialize_unchanged

\* svn_fs_fs__deserialize_p2l_header
DeserializeP2LHeader ==
  /\ serialized.kind = "p2l_header"
  /\ serialized.stage = "serialized"
  /\ serialized' = deserialized_item(
                     svn_fs_fs__deserialize_p2l_header(serialized.blob))
  /\ serialize_unchanged

\* svn_fs_fs__serialize_p2l_page on the array p2l_index_lookup got from
\* get_p2l_page for a cluster
SerializeP2LPage ==
  /\ \E offset \in P2LPageOffsets, pool \in Pools :
       \E r \in {svn_fs_fs__p2l_index_lookup(0, offset, p2l_index,
                                             EmptyHeaderCache, {})} :
         /\ r.err = SVN_NO_ERROR
         /\ \E page \in {p2l_page_array(r.entries, pool)} :
              serialized' = serialized_item("p2l_page", page,
                              svn_fs_fs__serialize_p2l_page(page))
  /\ serialize_unchanged

\* svn_fs_fs__deserialize_p2l_page
DeserializeP2LPage ==
  /\ serialized.kind = "p2l_page"
  /\ serialized.stage = "serialized"
  /\ \E pool \in Pools :
       serialized' = deserialized_item(
                       svn_fs_fs__deserialize_p2l_page(serialized.blob, pool))
  /\ serialize_unchanged

NextSerialize ==
  \/ SerializeL2PHeader
  \/ DeserializeL2PHeader
  \/ SerializeL2PPage
  \/ DeserializeL2PPage
  \/ SerializeP2LHeader
  \/ DeserializeP2LHeader
  \/ SerializeP2LPage
  \/ DeserializeP2LPage

SpecSerialize == InitSerialize /\ [][NextSerialize]_vars

----------------------------------------------------------------------------
(* What a proto log says, and what the index file built from it holds.     *)

Max(S) == CHOOSE x \in S : \A y \in S : y <= x

\* the records at which the builder ends a revision (positions from 1)
L2PRevisionEnds(log) ==
  {k \in 1..Len(log) : l2p_is_new_revision(k - 1, log[k], FALSE)}

\* the records the writers wrote through add_revision to end a revision
L2PMarkers(log) ==
  {k \in 2..Len(log) : log[k] = l2p_add_revision_entry}

\* the records of the REL-th revision (from 0) of a log cut at ENDS
L2PRecordsOf(log, ends, rel) ==
  {k \in (1..Len(log)) \ ends :
     Cardinality({j \in ends : j < k}) = rel}

\* the number of item-index slots of a set KS of records
L2PSlots(log, ks) ==
  IF ks = {} THEN 0 ELSE Max({log[k].item_index : k \in ks}) + 1

\* the offset the records KS give ITEM_INDEX: that of its latest record,
\* -1 if it has none
L2PRecordedOffset(log, ks, item_index) ==
  LET mine == {k \in ks : log[k].item_index = item_index}
  IN IF mine = {} THEN -1 ELSE log[Max(mine)].offset - 1

\* the header of the index file, as get_l2p_header_body decodes it
L2PHeader == get_l2p_header_body(NullStream, l2p_index).header

\* the page table entries of the REL-th revision of the index
L2PPagesOf(header, rel) ==
  SubSeq(header.page_table,
         header.page_table_index[rel + 1] + 1,
         header.page_table_index[rel + 2])

\* the results item_offset(REVISION, ITEM_INDEX) can give in this state
L2PResults(revision, item_index, header_cache, page_cache) ==
  {[err |-> o.err, offset |-> o.offset]
     : o \in l2p_index_lookup(revision, item_index, l2p_index,
                              header_cache, page_cache)}

\* C1: L2P round-trip.  For every revision the proto log describes and
\* every item index below that revision's slot count, item_offset returns
\* the recorded offset, and -1 where the revision has no record for it.
C1_L2PRoundTrip ==
  l2p_index.exists =>
    \A rel \in 0..Cardinality(L2PMarkers(l2p_proto)) :
      LET ks       == L2PRecordsOf(l2p_proto, L2PMarkers(l2p_proto), rel)
          revision == L2PHeader.first_revision + rel
      IN revision \in L2PLookupRevisions =>
           \A item_index \in 0..(L2PSlots(l2p_proto, ks) - 1) :
             L2PResults(revision, item_index,
                        l2p_header_cache, l2p_page_cache)
               = {[err |-> SVN_NO_ERROR,
                   offset |-> L2PRecordedOffset(l2p_proto, ks, item_index)]}

\* C4: for a revision the index covers, item_offset with an item index at
\* or beyond the revision's slot count fails with ITEM_INDEX_OVERFLOW,
\* whatever the caches hold.
C4_ItemIndexOverflow ==
  l2p_index.exists =>
    \A revision \in L2PLookupRevisions :
      LET rel == revision - L2PHeader.first_revision
          ks  == L2PRecordsOf(l2p_proto, L2PRevisionEnds(l2p_proto), rel)
      IN (rel >= 0 /\ rel < L2PHeader.revision_count) =>
           \A item_index \in L2PLookupItems :
             item_index >= L2PSlots(l2p_proto, ks) =>
               \A r \in L2PResults(revision, item_index,
                                   l2p_header_cache, l2p_page_cache) :
                 r.err = "SVN_ERR_FS_ITEM_INDEX_OVERFLOW"

\* C5: a lookup for a revision below first_revision, or at or beyond
\* first_revision + revision_count, fails with ITEM_INDEX_REVISION, with
\* the header cached and with the header read from the file.
C5_RevisionOutOfRange ==
  l2p_index.exists =>
    \A revision \in L2PLookupRevisions :
      (\/ revision < L2PHeader.first_revision
       \/ revision >= L2PHeader.first_revision + L2PHeader.revision_count) =>
        \A item_index \in L2PLookupItems :
          /\ L2PResults(revision, item_index,
                        l2p_header_cache, l2p_page_cache)
               = {[err |-> "SVN_ERR_FS_ITEM_INDEX_REVISION", offset |-> 0]}
          /\ L2PResults(revision, item_index, EmptyHeaderCache, {})
               = {[err |-> "SVN_ERR_FS_ITEM_INDEX_REVISION", offset |-> 0]}

\* an index of one revision starting at revision 1, its header cached:
\* revision 0 lies below it, revision 2 beyond it
C5_Witness ==
  /\ l2p_index.exists
  /\ l2p_header_cache.cached
  /\ l2p_header_cache.value.first_revision = 1
  /\ l2p_header_cache.value.revision_count = 1
  /\ L2PResults(0, 0, l2p_header_cache, l2p_page_cache)
       = {[err |-> "SVN_ERR_FS_ITEM_INDEX_REVISION", offset |-> 0]}
  /\ L2PResults(2, 0, l2p_header_cache, l2p_page_cache)
       = {[err |-> "SVN_ERR_FS_ITEM_INDEX_REVISION", offset |-> 0]}

\* C9: every revision listed in the revision table of a built index has
\* at least one page.
C9_EveryRevisionHasAPage ==
  l2p_index.exists =>
    \A rel \in 0..(L2PHeader.revision_count - 1) :
      Len(L2PPagesOf(L2PHeader, rel)) >= 1

\* C10: a revision with n >= 1 slots is written as ceil(n / P) pages, each
\* of P entries except the last, which has the rest.
C10_PageSplit ==
  l2p_index.exists =>
    \A rel \in 0..(L2PHeader.revision_count - 1) :
      LET ks    == L2PRecordsOf(l2p_proto, L2PRevisionEnds(l2p_proto), rel)
          n     == L2PSlots(l2p_proto, ks)
          pages == L2PPagesOf(L2PHeader, rel)
          full  == (n + l2p_page_size - 1) \div l2p_page_size
      IN n >= 1 =>
           /\ Len(pages) = full
           /\ \A q \in 1..Len(pages) :
                pages[q].entry_count
                  = IF q < full THEN l2p_page_size
                                ELSE n - (full - 1) * l2p_page_size

\* an index with a revision of exactly P slots on one page and another of
\* P + 1 slots on two pages of P and 1 entries
C10_Witness ==
  /\ l2p_index.exists
  /\ \E rel \in 0..(L2PHeader.revision_count - 1) :
       /\ L2PSlots(l2p_proto, L2PRecordsOf(l2p_proto,
                     L2PRevisionEnds(l2p_proto), rel)) = l2p_page_size
       /\ Len(L2PPagesOf(L2PHeader, rel)) = 1
  /\ \E rel \in 0..(L2PHeader.revision_count - 1) :
       /\ L2PSlots(l2p_proto, L2PRecordsOf(l2p_proto,
                     L2PRevisionEnds(l2p_proto), rel)) = l2p_page_size + 1
       /\ [q \in 1..2 |-> L2PPagesOf(L2PHeader, rel)[q].entry_count]
            = <<l2p_page_size, 1>>

----------------------------------------------------------------------------
(* What a P2L proto log says, and what the index file built from it holds. *)

\* the header of the index file, as get_p2l_header decodes it
P2LHeader == get_p2l_header(NullStream, p2l_index, EmptyHeaderCache).header

\* what svn_fs_fs__p2l_index_lookup returns for OFFSET with these caches
P2LLookup(offset, header_cache, page_cache) ==
  With(svn_fs_fs__p2l_index_lookup(0, offset, p2l_index,
                                   header_cache, page_cache), LAMBDA r :
    [err |-> r.err, entries |-> r.entries])

\* what svn_fs_fs__p2l_entry_lookup returns for OFFSET with these caches
P2LEntry(offset, header_cache, page_cache) ==
  With(svn_fs_fs__p2l_entry_lookup(0, offset, p2l_index,
                                   header_cache, page_cache), LAMBDA r :
    [err |-> r.err, entry |-> r.entry])

\* what svn_fs_fs__p2l_get_max_offset returns with this header cache
P2LMaxOffset(header_cache) ==
  With(svn_fs_fs__p2l_get_max_offset(0, p2l_index, header_cache), LAMBDA r :
    [err |-> r.err, offset |-> r.offset])

\* the starts of the clusters that cover [0, file_size)
P2LClusters(file_size) ==
  {q * p2l_page_size : q \in 0..((file_size + p2l_page_size - 1)
                                    \div p2l_page_size - 1)}

\* the entries of a set with distinct offsets, in offset order
RECURSIVE P2LInOffsetOrder(_)
P2LInOffsetOrder(entries) ==
  IF entries = {}
    THEN <<>>
    ELSE With(CHOOSE e \in entries : \A f \in entries : e.offset <= f.offset,
              LAMBDA first :
           <<first>> \o P2LInOffsetOrder(entries \ {first}))

\* the entries the lookups over the clusters of [0, file_size) return with
\* these caches, in offset order
P2LCovering(file_size, header_cache, page_cache) ==
  P2LInOffsetOrder(UNION {
    With(P2LLookup(offset, header_cache, page_cache).entries, LAMBDA es :
      {es[i] : i \in 1..Len(es)})
    : offset \in P2LClusters(file_size)})

\* the entries of the proto log as the builder finalizes them
P2LFinalized(proto, revision) ==
  [k \in 1..Len(proto) |->
     IF proto[k].revision = SVN_INVALID_REVNUM
       THEN [proto[k] EXCEPT !.revision = revision]
       ELSE proto[k]]

\* offset, size and type of an entry
P2LExtent(entry) ==
  [offset |-> entry.offset, size |-> entry.size, type |-> entry.type]

\* the "unused" section from the end of the last entry to the next cluster
\* boundary
P2LPadding(last_entry_end) ==
  [offset |-> last_entry_end,
   size   |-> APR_ALIGN(last_entry_end, p2l_page_size) - last_entry_end,
   type   |-> 0]

\* C2: P2L round-trip.  For a contiguous proto log that starts at offset 0,
\* the lookups over the clusters covering [0, file_size) all succeed and
\* return, in offset order, exactly the proto entries (invalid revisions
\* rewritten to the finalized revision) followed by the type-0 padding
\* entry that runs from the last entry's end to the next cluster boundary.
C2_P2LRoundTrip ==
  (p2l_index.exists /\ p2l_proto # <<>> /\ p2l_proto[1].offset = 0) =>
    /\ \A offset \in P2LClusters(P2LHeader.file_size) :
         P2LLookup(offset, p2l_header_cache, p2l_page_cache).err
           = SVN_NO_ERROR
    /\ With(P2LCovering(P2LHeader.file_size,
                        p2l_header_cache, p2l_page_cache), LAMBDA got :
         /\ Len(got) = Len(p2l_proto) + 1
         /\ SubSeq(got, 1, Len(p2l_proto))
              = P2LFinalized(p2l_proto, P2LHeader.first_revision)
         /\ P2LExtent(got[Len(got)]) = P2LPadding(p2l_proto_end)
         /\ got[Len(got)].number = 0)

\* an index of three items over several clusters, one of them written
\* with an invalid revision, with pages in the cache
C2_Witness ==
  /\ p2l_index.exists
  /\ Len(p2l_proto) = 3
  /\ p2l_proto[1].offset = 0
  /\ p2l_proto[2].revision = SVN_INVALID_REVNUM
  /\ p2l_proto[3].revision # SVN_INVALID_REVNUM
  /\ P2LHeader.page_count >= 3
  /\ Cardinality(p2l_page_cache) >= 2
  /\ Len(P2LCovering(P2LHeader.file_size,
                     p2l_header_cache, p2l_page_cache)) = 4

\* the entries page PAGE_NO of the index file describes itself: those
\* between its first number and the start of the next page
P2LPageEntries(header, page_no) ==
  IF header.offsets[page_no + 1] = header.offsets[page_no + 2]
    THEN <<>>
    ELSE get_p2l_page(NullStream, p2l_index, header.first_revision,
                      header.offsets[page_no + 1],
                      header.offsets[page_no + 2], 0, 0).entries

\* the first number of page PAGE_NO, which must not be empty
P2LPageFirstNumber(header, page_no) ==
  packed_stream_get(packed_stream_seek(NewStream,
                                       header.offsets[page_no + 1]),
                    p2l_index.data).value

\* all entries of the index file, page after page
P2LIndexEntries(header) ==
  Concat([q \in 1..header.page_count |-> P2LPageEntries(header, q - 1)])

\* the sum of the sizes of a sequence of entries
P2LSumOfSizes(entries) ==
  SumSeq([i \in 1..Len(entries) |-> entries[i].size])

\* the cluster in which an offset lies
P2LClusterOf(offset) == offset \div p2l_page_size

\* C6 as stated: p2l_get_max_offset equals the file_size of the header,
\* and both equal the sum of the sizes of all entries of the index, the
\* padding entry included (the page-aligned file size).
C6_MaxOffsetIsAlignedSum ==
  (p2l_index.exists /\ p2l_proto # <<>> /\ p2l_proto[1].offset = 0) =>
    /\ P2LMaxOffset(p2l_header_cache)
         = [err |-> SVN_NO_ERROR, offset |-> P2LHeader.file_size]
    /\ P2LHeader.file_size = P2LSumOfSizes(P2LIndexEntries(P2LHeader))
    /\ P2LHeader.file_size = APR_ALIGN(p2l_proto_end, p2l_page_size)

\* C6, amended: p2l_get_max_offset equals the file_size of the header, with
\* the header cached or read from the file, and both equal the end of the
\* last proto entry: the sum of the sizes of all entries of the index
\* without the padding entry.  With the padding the sum is that size
\* rounded up to the page size.
C6_MaxOffsetIsFileSize ==
  (p2l_index.exists /\ p2l_proto # <<>> /\ p2l_proto[1].offset = 0) =>
    /\ P2LMaxOffset(p2l_header_cache)
         = [err |-> SVN_NO_ERROR, offset |-> P2LHeader.file_size]
    /\ P2LMaxOffset(EmptyHeaderCache)
         = [err |-> SVN_NO_ERROR, offset |-> P2LHeader.file_size]
    /\ P2LHeader.file_size = p2l_proto_end
    /\ With(P2LIndexEntries(P2LHeader), LAMBDA all :
         /\ Len(all) = Len(p2l_proto) + 1
         /\ P2LSumOfSizes(SubSeq(all, 1, Len(all) - 1))
              = P2LHeader.file_size
         /\ P2LSumOfSizes(all)
              = APR_ALIGN(P2LHeader.file_size, p2l_page_size))

\* an index whose file size is no multiple of the page size, its header
\* in the cache, asked for its max offset
C6_Witness ==
  /\ p2l_index.exists
  /\ Len(p2l_proto) >= 2
  /\ p2l_proto[1].offset = 0
  /\ p2l_header_cache.cached
  /\ p2l_header_cache.value.file_size % p2l_page_size # 0
  /\ P2LMaxOffset(p2l_header_cache).offset = p2l_proto_end

\* the adjacent entries of a sequence leave no gap and do not overlap
P2LContinuous(entries) ==
  \A i \in 1..(Len(entries) - 1) :
    entries[i].offset + entries[i].size = entries[i + 1].offset

\* C7: offset continuity.  Any two adjacent entries e1, e2 that a P2L
\* lookup returns, the extra first entry of the next page included,
\* satisfy e1.offset + e1.size = e2.offset; so do the pages in the cache.
C7_OffsetContinuity ==
  p2l_index.exists =>
    /\ \A offset \in P2LPageOffsets :
         /\ P2LContinuous(P2LLookup(offset, p2l_header_cache,
                                    p2l_page_cache).entries)
         /\ P2LContinuous(P2LLookup(offset, EmptyHeaderCache, {}).entries)
    /\ \A e \in p2l_page_cache : P2LContinuous(e.page)

\* a cached page of three entries, the last of them read from the next
\* page because it runs across the end of the cluster
C7_Witness ==
  /\ p2l_index.exists
  /\ \E e \in p2l_page_cache :
       /\ Len(e.page) = 3
       /\ Len(P2LPageEntries(P2LHeader, e.key.page)) = 2
       /\ e.page[3].offset < (e.key.page + 1) * p2l_page_size
       /\ e.page[3].offset + e.page[3].size
            > (e.key.page + 1) * p2l_page_size
       /\ P2LLookup(e.key.page * p2l_page_size, p2l_header_cache,
                    p2l_page_cache).entries = e.page

\* an entry starts in one cluster and ends in a later one
P2LStraddles(entry) ==
  /\ entry.size > 0
  /\ P2LClusterOf(entry.offset)
       < P2LClusterOf(entry.offset + entry.size - 1)

\* the pages of the index that describe ENTRY
P2LPagesDescribing(header, entry) ==
  {q \in 0..(header.page_count - 1) :
     \E i \in 1..Len(P2LPageEntries(header, q)) :
       P2LPageEntries(header, q)[i] = entry}

\* C8 as stated: an item that straddles a cluster boundary is described in
\* the page of the cluster in which it starts; for the single proto entry
\* {off=60, size=20} page 0 contains the entry and page 1 begins with the
\* offset 80 and holds nothing but padding.
C8_StraddlerInEarlierPage ==
  p2l_index.exists =>
    \A k \in 1..Len(p2l_proto) :
      With(P2LFinalized(p2l_proto, P2LHeader.first_revision)[k], LAMBDA e :
        P2LStraddles(e) =>
          /\ P2LPagesDescribing(P2LHeader, e) = {P2LClusterOf(e.offset)}
          /\ (Len(p2l_proto) = 1 /\ e.offset = 60 /\ e.size = 20) =>
               /\ P2LPageFirstNumber(P2LHeader, 1) = 80
               /\ \A i \in 1..Len(P2LPageEntries(P2LHeader, 1)) :
                    P2LPageEntries(P2LHeader, 1)[i].type = 0)

\* C8, amended: every item is described in the page of the cluster in
\* which it ends, and in no other page; the pages of the clusters a
\* straddling item starts in or runs through can be empty.  For the single
\* proto entry {off=60, size=20} page 0 is empty and page 1 begins with the
\* offset 60 and holds the entry, then the padding from 80 to 128.
C8_StraddlerInLaterPage ==
  p2l_index.exists =>
    \A k \in 1..Len(p2l_proto) :
      With(P2LFinalized(p2l_proto, P2LHeader.first_revision)[k], LAMBDA e :
        /\ P2LPagesDescribing(P2LHeader, e)
             = {P2LClusterOf(e.offset + e.size - 1)}
        /\ (Len(p2l_proto) = 1 /\ e.offset = 60 /\ e.size = 20) =>
             /\ P2LHeader.page_count = 2
             /\ P2LPageEntries(P2LHeader, 0) = <<>>
             /\ P2LPageFirstNumber(P2LHeader, 1) = 60
             /\ With(P2LPageEntries(P2LHeader, 1), LAMBDA es :
                  /\ Len(es) = 2
                  /\ es[1] = e
                  /\ P2LExtent(es[2]) = P2LPadding(80)))

\* the index of the single proto entry {off=60, size=20}, whose cluster 0
\* has been looked up and is in the cache with the entry in it
C8_Witness ==
  /\ p2l_index.exists
  /\ Len(p2l_proto) = 1
  /\ p2l_proto[1].offset = 60
  /\ p2l_proto[1].size = 20
  /\ P2LStraddles(p2l_proto[1])
  /\ \E e \in p2l_page_cache :
       /\ e.key.page = 0
       /\ Len(e.page) = 1
       /\ P2LExtent(e.page[1]) = P2LExtent(p2l_proto[1])

\* C3: cache transparency.  Whatever the four caches hold after any
\* sequence of lookups and evictions, item_offset, p2l_index_lookup,
\* p2l_entry_lookup and p2l_get_max_offset return what the same call
\* returns with empty caches.
C3_CacheTransparency ==
  /\ \A revision \in L2PLookupRevisions, item_index \in L2PLookupItems :
       L2PResults(revision, item_index, l2p_header_cache, l2p_page_cache)
         = L2PResults(revision, item_index, EmptyHeaderCache, {})
  /\ \A offset \in P2LPageOffsets :
       P2LLookup(offset, p2l_header_cache, p2l_page_cache)
         = P2LLookup(offset, EmptyHeaderCache, {})
  /\ \A offset \in P2LEntryOffsets :
       P2LEntry(offset, p2l_header_cache, p2l_page_cache)
         = P2LEntry(offset, EmptyHeaderCache, {})
  /\ P2LMaxOffset(p2l_header_cache) = P2LMaxOffset(EmptyHeaderCache)

----------------------------------------------------------------------------
(* The item counts of the revisions. *)

\* the results get_max_ids(START_REV, COUNT) can give with this header cache
L2PMaxIds(start_rev, count, header_cache) ==
  {[err |-> o.err, max_ids |-> o.max_ids]
     : o \in svn_fs_fs__l2p_get_max_ids(start_rev, count, l2p_index,
                                        header_cache)}

\* the number of item-index slots the builder collected for the REL-th
\* revision of the log
L2PSlotsOfRevision(rel) ==
  L2PSlots(l2p_proto,
           L2PRecordsOf(l2p_proto, L2PRevisionEnds(l2p_proto), rel))

\* C11: for COUNT revisions from START_REV on that the index covers,
\* get_max_ids returns for each of them its number of item-index slots
\* (largest recorded item index + 1), with the header cached or not.
C11_MaxIds ==
  l2p_index.exists =>
    \A start_rev \in L2PLookupRevisions, count \in L2PMaxIdCounts :
      (/\ start_rev >= L2PHeader.first_revision
       /\ start_rev + count
            <= L2PHeader.first_revision + L2PHeader.revision_count) =>
        /\ L2PMaxIds(start_rev, count, l2p_header_cache)
             = {[err |-> SVN_NO_ERROR,
                 max_ids |-> [k \in 1..count |->
                    L2PSlotsOfRevision(start_rev + k - 1
                                         - L2PHeader.first_revision)]]}
        /\ L2PMaxIds(start_rev, count, EmptyHeaderCache)
             = L2PMaxIds(start_rev, count, l2p_header_cache)

----------------------------------------------------------------------------
(* The dispatch of svn_fs_fs__item_offset. *)

\* the results item_offset can give in the current state
ItemOffsetResults(fs, revision, txn_id, item_index) ==
  {[err |-> o.err, offset |-> o.offset]
     : o \in svn_fs_fs__item_offset(fs, revision, txn_id, item_index,
                                    l2p_proto, l2p_index,
                                    l2p_header_cache, l2p_page_cache)}

\* a result without error
Position(offset) == {[err |-> SVN_NO_ERROR, offset |-> offset]}

\* the offset the first record of the proto log gives for ITEM_INDEX
ProtoLogOffset(item_index) ==
  With({k \in 1..Len(l2p_proto) : l2p_proto[k].item_index = item_index},
       LAMBDA ks :
         IF ks = {}
           THEN -1
           ELSE l2p_proto[CHOOSE k \in ks : \A j \in ks : k <= j].offset - 1)

\* C12: item_offset with a transaction whose target revision (the base
\* revision + 1) is addressed logically gives the proto-log lookup result,
\* with any other transaction the item index; without a transaction the L2P
\* index lookup for a logically addressed revision, else the pack offset +
\* item index for a packed revision, else the item index.
C12_ItemOffsetDispatch ==
  \A fs \in FsConfigs, txn_id \in TxnIds,
     revision \in L2PLookupRevisions, item_index \in L2PLookupItems :
    ItemOffsetResults(fs, revision, txn_id, item_index) =
      CASE txn_id.given /\ txn_id.revision + 1 >= fs.min_log_addressing_rev
             -> Position(ProtoLogOffset(item_index))
        [] txn_id.given /\ txn_id.revision + 1 < fs.min_log_addressing_rev
             -> Position(item_index)
        [] ~txn_id.given /\ revision >= fs.min_log_addressing_rev
             -> L2PResults(revision, item_index, l2p_header_cache,
                           l2p_page_cache)
        [] /\ ~txn_id.given /\ revision < fs.min_log_addressing_rev
           /\ revision < fs.min_unpacked_rev
             -> Position(FsManifest[revision + 1] + item_index)
        [] OTHER -> Position(item_index)

\* the branches give different positions for one item: the index exists,
\* the log holds a later record for an item than its first, and a
\* transaction on the last revision of a physically addressed shard is
\* looked up in the proto log
C12_Witness ==
  /\ l2p_index.exists
  /\ \E item_index \in L2PLookupItems, fs \in FsConfigs, txn_id \in TxnIds :
       /\ txn_id.given
       /\ txn_id.revision < fs.min_log_addressing_rev
       /\ ItemOffsetResults(fs, 0, txn_id, item_index)
            = Position(ProtoLogOffset(item_index))
       /\ ProtoLogOffset(item_index) > item_index
       /\ L2PResults(0, item_index, l2p_header_cache, l2p_page_cache)
            \notin {Position(ProtoLogOffset(item_index)),
                    Position(item_index)}

----------------------------------------------------------------------------
(* The number encoding and the stream. *)

\* the longest encoding of an unsigned number: one byte per 7 bits
MaxEncodedBytes == (UINT64_BITS + 6) \div 7

\* the offsets of the file at which a number starts
ValueStarts == {0} \cup {i \in 1..(Len(packed_file) - 1) : packed_file[i] < 128}

\* the offset at which the K-th number starts
ValueStart(k) ==
  CHOOSE o \in ValueStarts : Cardinality({q \in ValueStarts : q < o}) = k - 1

\* the number the groups of 7 bits of BYTES spell, least significant first
RECURSIVE GroupsValue(_)
GroupsValue(bytes) ==
  IF bytes = <<>>
    THEN 0
    ELSE (Head(bytes) % 128) + 128 * GroupsValue(Tail(bytes))

\* what seek(OFFSET); get() gives on stream S: [err, value]
SeekGet(s, offset) ==
  With(packed_stream_get(packed_stream_seek(s, offset), packed_file),
       LAMBDA g : [err |-> g.err, value |-> g.value])

\* C13: an unsigned number is written as at most one byte per 7 bits of
\* the word, least significant group first, with the continuation bit on
\* every byte but the last, and the stream reader, new or in its current
\* state, reads the number back from these bytes.
C13_UintRoundTrip ==
  \A k \in 1..Len(packed_numbers) :
    ~packed_numbers[k].signed =>
      With(encode_uint(packed_numbers[k].value), LAMBDA bytes :
        /\ Len(bytes) <= MaxEncodedBytes
        /\ \A i \in 1..(Len(bytes) - 1) : bytes[i] >= 128
        /\ bytes[Len(bytes)] < 128
        /\ GroupsValue(bytes) = packed_numbers[k].value
        /\ SubSeq(packed_file, ValueStart(k) + 1, ValueStart(k) + Len(bytes))
             = bytes
        /\ SeekGet(NewStream, ValueStart(k))
             = [err |-> SVN_NO_ERROR, value |-> packed_numbers[k].value]
        /\ packed_stream.open =>
             SeekGet(packed_stream, ValueStart(k))
               = [err |-> SVN_NO_ERROR, value |-> packed_numbers[k].value])

\* the largest unsigned number lies behind other numbers, beyond a block
\* boundary of the file, and the stream has buffered numbers
C13_Witness ==
  /\ packed_stream.open
  /\ packed_stream.used > 0
  /\ \E k \in 2..Len(packed_numbers) :
       /\ packed_numbers[k] = [signed |-> FALSE,
                               value |-> APR_UINT64_MODULUS - 1]
       /\ ValueStart(k) < block_size
       /\ ValueStart(k) + MaxEncodedBytes > block_size

\* C14: a signed number written by encode_int is read back by the stream
\* and decode_int as the same number, the most negative and the most
\* positive number of the word included.
C14_IntRoundTrip ==
  \A k \in 1..Len(packed_numbers) :
    packed_numbers[k].signed =>
      With(SeekGet(NewStream, ValueStart(k)), LAMBDA g :
        /\ g.err = SVN_NO_ERROR
        /\ decode_int(g.value) = packed_numbers[k].value)

\* the most negative and the most positive number have been written and
\* the stream has read numbers
C14_Witness ==
  /\ packed_stream.open
  /\ packed_stream.used > 0
  /\ \E k \in 1..Len(packed_numbers) :
       packed_numbers[k] = [signed |-> TRUE,
                            value |-> 0 - APR_UINT64_MODULUS \div 2]
  /\ \E k \in 1..Len(packed_numbers) :
       packed_numbers[k] = [signed |-> TRUE,
                            value |-> APR_UINT64_MODULUS \div 2 - 1]
  /\ \E k \in 1..Len(packed_numbers) :
       packed_numbers[k] = [signed |-> TRUE, value |-> -3]

\* C15: in every state of the stream, seek(offset); get() gives the same
\* value when repeated, for every offset at which a number starts.
C15_SeekGetIdempotent ==
  packed_stream.open =>
    \A offset \in ValueStarts :
      With(packed_stream_get(packed_stream_seek(packed_stream, offset),
                             packed_file), LAMBDA first :
        /\ first.err = SVN_NO_ERROR
        /\ SeekGet(first.stream, offset)
             = [err |-> first.err, value |-> first.value])

\* the stream has buffered numbers, has handed out some of them, and the
\* file has number starts inside and outside the buffered range
C15_Witness ==
  /\ packed_stream.open
  /\ packed_stream.used > 0
  /\ packed_stream.current > 0
  /\ \E offset \in ValueStarts :
       offset > packed_stream.start_offset /\ offset < packed_stream.next_offset
  /\ \E offset \in ValueStarts : offset >= packed_stream.next_offset
  /\ \E offset \in ValueStarts : offset < packed_stream.start_offset

----------------------------------------------------------------------------
(* The prefetch of L2P pages. *)

\* the keys of all pages of the index
L2PPageKeys ==
  {page_cache_key(L2PHeader.first_revision + rel, page_no)
     : <<rel, page_no>> \in
         {<<r, q>> \in (0..(L2PHeader.revision_count - 1))
                         \X (0..(Len(L2PHeader.page_table) - 1)) :
            q < Len(L2PPagesOf(L2PHeader, r))}}

\* the page table entry of the page with key KEY
L2PPageEntry(key) ==
  L2PPagesOf(L2PHeader, key.revision - L2PHeader.first_revision)[key.page + 1]

\* the end of the window of ENTRY: the first multiple of the window size at
\* or after the end of the page
L2PWindowEnd(entry) ==
  CHOOSE m \in {q * L2P_WINDOW : q \in 0..64} :
    /\ m >= entry.offset + entry.size
    /\ m - L2P_WINDOW < entry.offset + entry.size

\* the byte range of the page KEY lies inside the window of ENTRY
L2PInWindow(key, entry) ==
  /\ L2PPageEntry(key).offset >= L2PWindowEnd(entry) - L2P_WINDOW
  /\ L2PPageEntry(key).offset + L2PPageEntry(key).size <= L2PWindowEnd(entry)

\* the lookups of (REVISION, ITEM_INDEX) that find the page table entry of
\* the requested page and miss the page in the cache: [info, outcome]
L2PCacheMisses(revision, item_index) ==
  {[info |-> i.info,
    outcome |-> l2p_lookup_page(revision, i.info, i.stream, l2p_index,
                                i.header_cache, l2p_page_cache)]
     : i \in {j \in get_l2p_page_info(revision, item_index, l2p_index,
                                     l2p_header_cache) :
                /\ j.err = SVN_NO_ERROR
                /\ ~svn_cache__has_key(l2p_page_cache,
                     page_cache_key(revision, j.info.page_no))}}

\* the keys of the pages the lookup M added to the cache besides the
\* requested page
L2PPrefetched(revision, m) ==
  {c.key : c \in m.outcome.page_cache}
    \ ({c.key : c \in l2p_page_cache}
         \cup {page_cache_key(revision, m.info.page_no)})

\* C16: every page a cache-missing lookup reads and caches in addition to
\* the requested page has its byte range inside the aligned window that
\* holds the end of the requested page.
C16_PrefetchInsideWindow ==
  l2p_index.exists =>
    \A revision \in L2PLookupRevisions, item_index \in L2PLookupItems :
      \A m \in L2PCacheMisses(revision, item_index) :
        \A key \in L2PPrefetched(revision, m) :
          /\ key \in L2PPageKeys
          /\ L2PInWindow(key, m.info.entry)

\* a cache-missing lookup adds a page besides the requested one while
\* another page of the index lies outside the window and stays uncached
C16_Witness ==
  /\ l2p_index.exists
  /\ \E revision \in L2PLookupRevisions, item_index \in L2PLookupItems :
       \E m \in L2PCacheMisses(revision, item_index) :
         /\ m.outcome.err = SVN_NO_ERROR
         /\ L2PPrefetched(revision, m) # {}
         /\ \E key \in L2PPageKeys :
              /\ ~L2PInWindow(key, m.info.entry)
              /\ ~svn_cache__has_key(m.outcome.page_cache, key)

\* the pages other than the requested one whose range is inside the window
L2PNeighbours(revision, m) ==
  {key \in L2PPageKeys \ {page_cache_key(revision, m.info.page_no)} :
     L2PInWindow(key, m.info.entry)}

L2PFirstExamined(revision, m) ==
  With(revision - L2PHeader.first_revision, LAMBDA rel :
    IF rel < 0 \/ rel >= L2PHeader.revision_count
      THEN {}
    ELSE IF Len(L2PPagesOf(L2PHeader, rel)) > 1
      THEN {page_cache_key(revision, IF m.info.page_no = 0 THEN 1 ELSE 0)}
    ELSE IF /\ Len(L2PPagesOf(L2PHeader, rel)) = 1
            /\ rel + 1 < L2PHeader.revision_count
            /\ revision + 1 < L2PHeader.first_revision + max_files_per_dir
            /\ Len(L2PPagesOf(L2PHeader, rel + 1)) > 0
      THEN {page_cache_key(revision + 1, 0)}
      ELSE {})

----------------------------------------------------------------------------
(* Concurrent readers. *)

\* the page the index file holds for the page table entry ENTRY
L2PDecodedPage(entry) == get_l2p_page(NullStream, l2p_index, entry).page

\* every cache key holds the decoded content of the header or page it names
L2PCachesHoldTheirContent ==
  /\ l2p_header_cache.cached => l2p_header_cache.value = L2PHeader
  /\ \A c \in l2p_page_cache :
       /\ c.key \in L2PPageKeys
       /\ c.page = L2PDecodedPage(L2PPageEntry(c.key))

\* a lookup that has returned gives a result it can give when run alone,
\* starting from empty caches
L2PReadersAgreeWithLoneRun ==
  \A r \in Readers :
    readers[r].pc = "done" =>
      [err |-> readers[r].err, offset |-> readers[r].offset]
        \in L2PResults(readers[r].revision, readers[r].item_index,
                       EmptyHeaderCache, {})

\* C18: under every interleaving of the readers' cache accesses each lookup
\* returns the result it returns when run alone, and every cache key holds
\* the decoded content of the header or page it names.
C18_ParallelReaders ==
  L2PReadersAgreeWithLoneRun /\ L2PCachesHoldTheirContent

----------------------------------------------------------------------------
(* Lookups while the index is being created. *)

\* the results of the lookup on the index file FILE with the current caches
L2PResultsOn(file, revision, item_index) ==
  {[err |-> o.err, offset |-> o.offset]
     : o \in l2p_index_lookup(revision, item_index, file,
                              l2p_header_cache, l2p_page_cache)}

\* the completely written index of the proto index
L2PCompleteIndex ==
  [exists |-> TRUE, data |-> svn_fs_fs__l2p_index_create(l2p_proto, 0)]

\* C19: at every moment of the creation of the index, a lookup either finds
\* no index file or gives what it gives on the completely written index.
C19_NoPartialIndex ==
  \A revision \in L2PLookupRevisions, item_index \in L2PLookupItems :
    L2PResults(revision, item_index, l2p_header_cache, l2p_page_cache)
      \subseteq (L2PResultsOn(NoFile, revision, item_index)
                   \cup L2PResultsOn(L2PCompleteIndex, revision, item_index))

----------------------------------------------------------------------------
(* The lookup of single P2L entries. *)

\* the offsets looked up: the fixed ones, the starts of the items of the
\* proto log and its end
P2LLookedUpOffsets ==
  P2LEntryOffsets \cup {p2l_proto[k].offset : k \in 1..Len(p2l_proto)}
                  \cup {p2l_proto_end}

\* the finalized entries of the proto log that start at OFFSET
P2LItemsAt(offset) ==
  {P2LFinalized(p2l_proto, P2LHeader.first_revision)[k]
     : k \in {j \in 1..Len(p2l_proto) : p2l_proto[j].offset = offset}}

\* ENTRY is the "unused" section behind the last entry of the proto log
P2LIsPadding(entry) ==
  /\ P2LExtent(entry) = P2LPadding(p2l_proto_end)
  /\ entry.number = 0

----------------------------------------------------------------------------
(* The (de-)serialization of cache items. *)

\* the members of an array header that describe its content
P2LPageContent(page) ==
  [elt_size |-> page.elt_size, nelts |-> page.nelts, elts |-> page.elts]

\* C21 as stated: deserializing the serialized item yields a value equal
\* to the original in all scalar members and in the content of its arrays,
\* for L2P headers, L2P pages, P2L headers and P2L pages (the pool of an
\* array is a pointer and is left aside).
C21_SerializerFixedPoint ==
  serialized.kind # "none" /\ serialized.stage = "deserialized" =>
    IF serialized.kind = "p2l_page"
      THEN [serialized.out EXCEPT !.pool = serialized.in.pool] = serialized.in
      ELSE serialized.out = serialized.in

\* C21: deserializing the serialized item yields the original L2P header,
\* L2P page or P2L header, member by member and array by array; a P2L page
\* comes back with the same element size, number of elements and entries,
\* and with its capacity nalloc set to its number of elements.
C21_SerializerFixedPointOfContent ==
  serialized.kind # "none" /\ serialized.stage = "deserialized" =>
    IF serialized.kind = "p2l_page"
      THEN /\ P2LPageContent(serialized.out) = P2LPageContent(serialized.in)
           /\ serialized.out.nalloc = serialized.out.nelts
      ELSE serialized.out = serialized.in

\* a P2L page of several entries, made with a larger capacity, has gone
\* through the serializer and come back into another pool
C21_Witness ==
  /\ serialized.kind = "p2l_page"
  /\ serialized.stage = "deserialized"
  /\ serialized.in.nelts >= 2
  /\ serialized.in.nalloc > serialized.in.nelts
  /\ serialized.out.pool # serialized.in.pool

----------------------------------------------------------------------------
(* The lookup in the proto index of a transaction. *)

\* the transactions whose revision will be addressed logically in FS
L2PLogAddressedTxns(fs) ==
  {txn_id \in TxnIds :
     txn_id.given /\ txn_id.revision + 1 >= fs.min_log_addressing_rev}

\* C22: with a transaction id (of a transaction whose revision will use
\* logical addressing), item_offset returns without error the offset
\* offset_plus_one - 1 of the first record of the proto log, in file order,
\* whose item index is the requested one, and -1 when no record has it.
C22_ProtoIndexLookup ==
  \A fs \in FsConfigs, revision \in L2PLookupRevisions,
     item_index \in L2PItemIndexes \cup L2PLookupItems :
    \A txn_id \in L2PLogAddressedTxns(fs) :
      \A o \in ItemOffsetResults(fs, revision, txn_id, item_index) :
        /\ o.err = SVN_NO_ERROR
        /\ \/ \E k \in 1..Len(l2p_proto) :
                /\ l2p_proto[k].item_index = item_index
                /\ \A j \in 1..(k - 1) : l2p_proto[j].item_index # item_index
                /\ o.offset = l2p_proto[k].offset - 1
           \/ /\ \A k \in 1..Len(l2p_proto) :
                   l2p_proto[k].item_index # item_index
              /\ o.offset = -1

\* the proto log has two records with different offsets for one item and
\* no record for another item, and both items are looked up
C22_Witness ==
  \E fs \in FsConfigs, item_index, other \in L2PItemIndexes :
    \E txn_id \in L2PLogAddressedTxns(fs) :
      /\ \E j, k \in 1..Len(l2p_proto) :
           /\ j < k
           /\ l2p_proto[j].item_index = item_index
           /\ l2p_proto[k].item_index = item_index
           /\ l2p_proto[j].offset # l2p_proto[k].offset
           /\ ItemOffsetResults(fs, 0, txn_id, item_index)
                = Position(l2p_proto[j].offset - 1)
      /\ \A k \in 1..Len(l2p_proto) : l2p_proto[k].item_index # other
      /\ ItemOffsetResults(fs, 0, txn_id, other) = Position(-1)

----------------------------------------------------------------------------
(* The pages the P2L builder closes and starts. *)

\* the locals of svn_fs_fs__p2l_index_create after K passes of its loop
\* over the proto log
RECURSIVE P2LBuilderAfter(_)
P2LBuilderAfter(k) ==
  IF k = 0
    THEN p2l_create_start(P2LHeader.first_revision)
    ELSE p2l_process_entry(P2LBuilderAfter(k - 1),
                           p2l_fixup_entry(p2l_proto[k],
                                           P2LHeader.first_revision),
                           P2LHeader.first_revision)

\* the cluster boundaries k * Q, k >= 1, in the range of ENTRY, its start
\* included
P2LBoundariesIn(entry) ==
  {q \in 1..(MaxP2LFileSize \div p2l_page_size) :
     /\ entry.offset <= q * p2l_page_size
     /\ q * p2l_page_size < entry.offset + entry.size}

\* the page tables closed in the K-th pass
P2LPagesClosed(k) ==
  Len(P2LBuilderAfter(k).table_sizes)
    - Len(P2LBuilderAfter(k - 1).table_sizes)

\* the K-th pass has started a page table with the entry of the log it
\* has read: the table begins where the buffer ended, with the offset of
\* the entry
P2LStartsPage(k) ==
  With(P2LBuilderAfter(k - 1), LAMBDA before :
  With(P2LBuilderAfter(k), LAMBDA after :
    /\ after.last_buffer_size = Len(before.buffer)
    /\ With(encode_uint(p2l_proto[k].offset), LAMBDA first :
         SubSeq(after.buffer, Len(before.buffer) + 1,
                Len(before.buffer) + Len(first)) = first)))

\* the cluster boundaries ENTRY crosses: it has bytes on both sides
P2LBoundariesCrossed(entry) ==
  {q \in P2LBoundariesIn(entry) : entry.offset < q * p2l_page_size}

\* C23 as stated: in the build of a P2L index from contiguous entries, an
\* entry that starts on a cluster boundary k * Q, k >= 1, becomes the first
\* entry of a new page, and the pass for an entry that crosses N cluster
\* boundaries closes N pages.
C23_PagesClosedPerCrossing ==
  p2l_index.exists =>
    \A k \in 1..Len(p2l_proto) :
      /\ P2LPagesClosed(k) = Cardinality(P2LBoundariesCrossed(p2l_proto[k]))
      /\ (/\ p2l_proto[k].offset > 0
          /\ p2l_proto[k].offset % p2l_page_size = 0) => P2LStartsPage(k)

\* C23: in the build of a P2L index from contiguous entries, an entry
\* that starts on a cluster boundary k * Q, k >= 1, becomes the first
\* entry of a new page, and the pass for an entry closes as many pages as
\* there are cluster boundaries in its range, the one it may start on
\* included.
C23_PagesClosed ==
  p2l_index.exists =>
    \A k \in 1..Len(p2l_proto) :
      /\ P2LPagesClosed(k) = Cardinality(P2LBoundariesIn(p2l_proto[k]))
      /\ (/\ p2l_proto[k].offset > 0
          /\ p2l_proto[k].offset % p2l_page_size = 0) => P2LStartsPage(k)

\* the log has an entry that starts on a cluster boundary and reaches
\* over two more, and an entry inside one cluster
C23_Witness ==
  /\ p2l_index.exists
  /\ \E k \in 1..Len(p2l_proto) :
       /\ p2l_proto[k].offset > 0
       /\ p2l_proto[k].offset % p2l_page_size = 0
       /\ P2LPagesClosed(k) = 3
       /\ P2LStartsPage(k)
  /\ \E k \in 1..Len(p2l_proto) : P2LPagesClosed(k) = 0

----------------------------------------------------------------------------
(* The records at which the L2P builder ends a revision. *)

\* the records of the log with offset_plus_one = 0 and item_index = 0
L2PZeroRecords(log) ==
  {k \in 1..Len(log) : log[k].offset = 0 /\ log[k].item_index = 0}

\* C24: the L2P builder ends the current revision at the records of the
\* proto log whose offset_plus_one and item_index are both zero and at no
\* other record, so the index has one revision more than the log has such
\* records; all other records, add_entry(-1, item_index) with an item
\* index other than 0 among them, are stored as mappings of the current
\* revision.
C24_RevisionEndsAtZeroRecords ==
  l2p_index.exists =>
    /\ L2PRevisionEnds(l2p_proto) = L2PZeroRecords(l2p_proto)
    /\ L2PHeader.revision_count
         = Cardinality(L2PZeroRecords(l2p_proto)) + 1

----------------------------------------------------------------------------
(* The page table entries read for a revision. *)

\* the positions in page_table, counted from 0, of the entries of the
\* REL-th revision of the header
L2PEntriesOfRevision(header, rel) ==
  header.page_table_index[rel + 1]..(header.page_table_index[rel + 2] - 1)

\* C25: for every revision the header of the index covers, a revision
\* written with zero pages included, the page table entry read by the
\* page-info derivation of item_offset, for any item index, and the one
\* read by get_max_ids are entries of that revision.
C25_EntriesOfTheRevision ==
  l2p_index.exists =>
    \A rel \in 0..(L2PHeader.revision_count - 1) :
      /\ \A item_index \in L2PLookupItems :
           l2p_page_info_entry_index(L2PHeader.first_revision + rel,
                                     item_index, L2PHeader)
             \in L2PEntriesOfRevision(L2PHeader, rel)
      /\ l2p_item_count_entry_index(L2PHeader,
                                    L2PHeader.first_revision + rel)
           \in L2PEntriesOfRevision(L2PHeader, rel)

----------------------------------------------------------------------------
(* The content of the L2P page cache. *)

\* C26: after any sequence of lookups, failed ones included, every key in
\* the L2P page cache names a page of its revision's page table, and the
\* value cached under it is the decoded content of that page.
C26_PageCacheKeysNamePages ==
  l2p_index.exists =>
    \A c \in l2p_page_cache :
      /\ c.key \in L2PPageKeys
      /\ c.page = L2PDecodedPage(L2PPageEntry(c.key))

----------------------------------------------------------------------------
(* The keys of the L2P page cache. *)

\* what the lookup M has put into the page cache
L2PAdded(m) == m.outcome.page_cache \ l2p_page_cache

\* a key of the L2P page cache
L2PKey(revision, page) ==
  [revision |-> revision, is_packed |-> TRUE, page |-> page]

\* C27 as stated: the keys under which a lookup of (R, I) and its
\* prefetch put pages into the L2P page cache are made of the first
\* revision of the index that covers R, the packed flag and the page
\* number.
C27_KeyOfFirstRevision ==
  l2p_index.exists =>
    \A revision \in L2PLookupRevisions, item_index \in L2PLookupItems :
      \A m \in L2PCacheMisses(revision, item_index) :
        /\ \A c \in L2PAdded(m) :
             /\ c.key.revision = m.info.first_revision
             /\ c.key.is_packed
        /\ m.outcome.err = SVN_NO_ERROR =>
             svn_cache__has_key(m.outcome.page_cache,
                                L2PKey(m.info.first_revision,
                                       m.info.page_no))

\* C27: a lookup of (R, I) puts the page it reads into the L2P page cache
\* under the key (R, is_packed, page number of the page within R), and its
\* prefetch puts every page under the key made of the revision the page
\* belongs to, the packed flag and the number of the page within that
\* revision.
C27_KeyOfRevision ==
  l2p_index.exists =>
    \A revision \in L2PLookupRevisions, item_index \in L2PLookupItems :
      \A m \in L2PCacheMisses(revision, item_index) :
        /\ \A c \in L2PAdded(m) :
             \/ /\ c.key = L2PKey(revision, m.info.page_no)
                /\ c.page = L2PDecodedPage(m.info.entry)
             \/ \E rel \in 0..(L2PHeader.revision_count - 1) :
                  \E q \in 1..Len(L2PPagesOf(L2PHeader, rel)) :
                    /\ c.key = L2PKey(L2PHeader.first_revision + rel, q - 1)
                    /\ c.page
                         = L2PDecodedPage(L2PPagesOf(L2PHeader, rel)[q])
        /\ m.outcome.err = SVN_NO_ERROR =>
             svn_cache__has_key(m.outcome.page_cache,
                                L2PKey(revision, m.info.page_no))

\* a lookup in a revision that is not the first of its index puts its
\* page and a page of another revision into the cache
C27_Witness ==
  /\ l2p_index.exists
  /\ \E revision \in L2PLookupRevisions, item_index \in L2PLookupItems :
       \E m \in L2PCacheMisses(revision, item_index) :
         /\ revision # m.info.first_revision
         /\ m.outcome.err = SVN_NO_ERROR
         /\ \E c, d \in L2PAdded(m) :
              /\ c.key.revision = revision
              /\ d.key.revision # revision

----------------------------------------------------------------------------
(* The stream and a reference decoder. *)

\* the reference decoder: the number of bytes of the number that starts at
\* OFFSET of the file, and the number
RefLength(offset) ==
  CHOOSE n \in 1..(Len(packed_file) - offset) :
    /\ packed_file[offset + n] < 128
    /\ \A i \in 1..(n - 1) : packed_file[offset + i] >= 128
RefValue(offset) ==
  GroupsValue(SubSeq(packed_file, offset + 1, offset + RefLength(offset)))

\* get() on stream S returns the number that starts at the offset of S
\* and moves the offset of S behind it
GetAgreesWithReference(s) ==
  With(packed_stream_offset(s), LAMBDA offset :
  With(packed_stream_get(s, packed_file), LAMBDA g :
    /\ g.err = SVN_NO_ERROR
    /\ g.value = RefValue(offset)
    /\ packed_stream_offset(g.stream) = offset + RefLength(offset)))

\* C28: on a file of well-formed numbers, read with any block size, after
\* any sequence of seeks and gets: when the offset of the stream is the
\* start of a number, get() returns that number and the offset reported
\* afterwards is advanced by the encoded length of the number; and a seek
\* to the start of a number makes it the offset of the stream, from which
\* get() does the same.
C28_StreamIsReferenceDecoder ==
  packed_stream.open =>
    /\ (/\ packed_stream_offset(packed_stream) \in ValueStarts
        /\ packed_stream_offset(packed_stream) < Len(packed_file))
         => GetAgreesWithReference(packed_stream)
    /\ \A offset \in ValueStarts :
         offset < Len(packed_file) =>
           With(packed_stream_seek(packed_stream, offset), LAMBDA s :
             /\ packed_stream_offset(s) = offset
             /\ GetAgreesWithReference(s))

\* the stream has handed out buffered numbers and stands in front of a
\* number of several bytes that is buffered, and a number that reaches
\* into the next block of the file is not buffered
C28_Witness ==
  /\ packed_stream.open
  /\ packed_stream.current > 0
  /\ packed_stream.current < packed_stream.used
  /\ packed_stream_offset(packed_stream) \in ValueStarts
  /\ RefLength(packed_stream_offset(packed_stream)) > 1
  /\ \E offset \in ValueStarts :
       /\ offset >= packed_stream.next_offset
       /\ offset < Len(packed_file)
       /\ offset \div packed_stream.block_size
            < (offset + RefLength(offset) - 1) \div packed_stream.block_size

----------------------------------------------------------------------------
(* The bytes a refill of the stream reads. *)

\* the end of the block of the stream's block size that holds OFFSET
BlockEnd(s, offset) == offset - (offset % s.block_size) + s.block_size

\* the streams about to refill at the start of a number: the current one
\* and the current one after a seek
RefillingStreams ==
  {s \in {packed_stream}
           \cup {packed_stream_seek(packed_stream, offset)
                   : offset \in ValueStarts} :
     /\ s.open
     /\ s.current = s.used
     /\ s.next_offset \in ValueStarts
     /\ s.next_offset < Len(packed_file)}

\* C29 as stated: a refill of the stream reads no byte beyond the end of
\* the block that holds the read position.
C29_RefillInsideBlock ==
  \A s \in RefillingStreams :
    s.next_offset + Len(packed_stream_read_bytes(s, packed_file))
      <= BlockEnd(s, s.next_offset)

\* C29: a refill of the stream reads no byte beyond the end of the block
\* that holds the read position when at least 10 bytes are left in that
\* block; with fewer bytes left it asks for a full buffer of
\* MAX_NUMBER_PREFETCH bytes, beyond the end of the block.
C29_RefillInsideBlockIfRoom ==
  \A s \in RefillingStreams :
    With(BlockEnd(s, s.next_offset) - s.next_offset, LAMBDA block_left :
      /\ Len(packed_stream_read_bytes(s, packed_file))
           = Min(packed_stream_read_size(s),
                 Len(packed_file) - s.next_offset)
      /\ IF block_left >= 10
           THEN packed_stream_read_size(s) = Min(block_left,
                                                 MAX_NUMBER_PREFETCH)
           ELSE packed_stream_read_size(s) = MAX_NUMBER_PREFETCH)

\* a refill with room in the block stops at the end of the block although
\* the file goes on, and a refill with less room reads bytes of the next
\* block
C29_Witness ==
  /\ \E s \in RefillingStreams :
       /\ BlockEnd(s, s.next_offset) - s.next_offset >= 10
       /\ BlockEnd(s, s.next_offset) < Len(packed_file)
       /\ s.next_offset + Len(packed_stream_read_bytes(s, packed_file))
            = BlockEnd(s, s.next_offset)
  /\ \E s \in RefillingStreams :
       /\ BlockEnd(s, s.next_offset) - s.next_offset < 10
       /\ s.next_offset + Len(packed_stream_read_bytes(s, packed_file))
            > BlockEnd(s, s.next_offset)

----------------------------------------------------------------------------
(* The numbers a refill of the stream buffers. *)

\* the starts of the numbers of the file, and its end
ValueBounds == ValueStarts \cup {Len(packed_file)}

\* the last start or end of a number at or before OFFSET
LastBoundBefore(offset) ==
  CHOOSE o \in ValueBounds :
    /\ o <= offset
    /\ \A q \in ValueBounds : q <= offset => q <= o

\* the refill of stream S buffers the numbers of the file from the read
\* position up to the last number that the bytes read hold completely, at
\* least one, and leaves the read position behind that number
RefillBuffersCompleteValues(s) ==
  With(s.next_offset + Len(packed_stream_read_bytes(s, packed_file)),
       LAMBDA read_end :
  With(packed_stream_read(s, packed_file), LAMBDA r :
    /\ r.err = SVN_NO_ERROR
    /\ r.stream.used >= 1
    /\ r.stream.current = 0
    /\ r.stream.start_offset = s.next_offset
    /\ r.stream.next_offset = LastBoundBefore(read_end)
    /\ r.stream.used
         = Cardinality({o \in ValueStarts :
                          /\ s.next_offset <= o
                          /\ o < r.stream.next_offset})
    /\ \A k \in 1..r.stream.used :
         With(s.next_offset + (IF k = 1 THEN 0
                               ELSE r.stream.buffer[k - 1].total_len),
              LAMBDA o :
           /\ o \in ValueStarts
           /\ r.stream.buffer[k].value = RefValue(o)
           /\ r.stream.buffer[k].total_len
                = o + RefLength(o) - s.next_offset)))

\* C30: a refill at the start of a number, before the end of the file,
\* buffers at least one number; it buffers the numbers that the bytes read
\* hold completely and not the incomplete number at their end, and the
\* next refill reads from the first byte of that number.
C30_RefillBuffersValues ==
  \A s \in RefillingStreams : RefillBuffersCompleteValues(s)

\* the stream was refilled with room in the block and with the file going
\* on behind the block, and holds numbers that end before the end of the
\* block: the number that reaches into the next block was read in part and
\* is not buffered, and the next refill starts at its first byte
C30_Witness ==
  /\ packed_stream.open
  /\ packed_stream.used >= 1
  /\ packed_stream.current = packed_stream.used
  /\ BlockEnd(packed_stream, packed_stream.start_offset)
       - packed_stream.start_offset >= 10
  /\ BlockEnd(packed_stream, packed_stream.start_offset) < Len(packed_file)
  /\ packed_stream.next_offset
       < BlockEnd(packed_stream, packed_stream.start_offset)
  /\ packed_stream.next_offset \in ValueStarts
  /\ packed_stream.next_offset + RefLength(packed_stream.next_offset)
       > BlockEnd(packed_stream, packed_stream.start_offset)
  /\ packed_stream \in RefillingStreams

----------------------------------------------------------------------------
(* The entries of a P2L lookup cover the cluster of the offset. *)

\* the offsets of the clusters of the index, some of them inside a cluster
P2LCoveredOffsets ==
  {o \in P2LPageOffsets \cup P2LEntryOffsets :
     o < P2LHeader.page_count * p2l_page_size}

\* the entry has a byte in the cluster that starts at CLUSTER_START
P2LOverlaps(entry, cluster_start) ==
  /\ entry.offset < cluster_start + p2l_page_size
  /\ entry.offset + entry.size > cluster_start

\* the lookup of OFFSET with these caches succeeds with entries that run
\* without gap from the start of the cluster or before to the end of the
\* cluster or beyond, among them every item of the log in the cluster
P2LLookupCoversCluster(offset, header_cache, page_cache) ==
  With(offset - (offset % p2l_page_size), LAMBDA cluster_start :
  With(P2LLookup(offset, header_cache, page_cache), LAMBDA r :
    /\ r.err = SVN_NO_ERROR
    /\ r.entries # <<>>
    /\ r.entries[1].offset <= cluster_start
    /\ r.entries[Len(r.entries)].offset + r.entries[Len(r.entries)].size
         >= cluster_start + p2l_page_size
    /\ P2LContinuous(r.entries)
    /\ \A k \in 1..Len(p2l_proto) :
         P2LOverlaps(p2l_proto[k], cluster_start) =>
           \E i \in 1..Len(r.entries) :
             r.entries[i] = P2LFinalized(p2l_proto,
                                         P2LHeader.first_revision)[k]))

\* C31: for a contiguous proto log that starts at offset 0 and every
\* offset inside the clusters of the index, the entries p2l_index_lookup
\* returns start at or before the start of the offset's cluster and end at
\* or after its end, and every item overlapping the cluster is among
\* them, with any cache content and with empty caches.
C31_LookupCoversCluster ==
  (p2l_index.exists /\ p2l_proto # <<>> /\ p2l_proto[1].offset = 0) =>
    \A offset \in P2LCoveredOffsets :
      /\ P2LLookupCoversCluster(offset, p2l_header_cache, p2l_page_cache)
      /\ P2LLookupCoversCluster(offset, EmptyHeaderCache, {})

\* an item runs through a whole cluster whose page is empty, and the
\* lookup of an offset of that cluster, done and cached, returns the item;
\* the item in front of it ends in a cluster whose page hands over to the
\* first entry of a later page
C31_Witness ==
  /\ p2l_index.exists
  /\ Len(p2l_proto) >= 2
  /\ p2l_proto[1].offset = 0
  /\ \E k \in 2..Len(p2l_proto) :
       /\ p2l_proto[k].offset < 64
       /\ p2l_proto[k].offset + p2l_proto[k].size > 128
       /\ P2LPageEntries(P2LHeader, 1) = <<>>
       /\ \E e \in p2l_page_cache :
            /\ e.key.page = 1
            /\ Len(e.page) = 1
            /\ e.page[1].offset = p2l_proto[k].offset
       /\ P2LLookup(80, p2l_header_cache, p2l_page_cache).entries
            = <<P2LFinalized(p2l_proto, P2LHeader.first_revision)[k]>>
       /\ Len(P2LLookup(0, p2l_header_cache, p2l_page_cache).entries) = k

----------------------------------------------------------------------------
(* P2L lookups of offsets behind the content of the revision. *)

\* the offsets looked up, inside the file and behind it
P2LOverflowOffsets == P2LPageOffsets \cup P2LEntryOffsets

\* the errors of the two lookups of OFFSET with these caches
P2LLookupErrors(offset, header_cache, page_cache) ==
  {P2LLookup(offset, header_cache, page_cache).err,
   P2LEntry(offset, header_cache, page_cache).err}

----------------------------------------------------------------------------
(* Readers of both indexes of a packed shard with their caches: the        *)
(* indexes exist, the lookups fill the caches and the caches evict.        *)

\* the L2P logs of the shard: two revisions of two and one page, and one
\* revision of one page
WarmL2PLogs ==
  {<<l2p_add_entry_entry(69, 0), l2p_add_entry_entry(140, 1),
     l2p_add_entry_entry(209, 2), l2p_add_revision_entry,
     l2p_add_entry_entry(300, 0)>>,
   <<l2p_add_entry_entry(69, 0)>>}

\* the P2L logs of the shard: items within and across clusters, and one
\* item that runs through five clusters into the sixth
WarmP2LLogs ==
  {<<p2l_entry(0, 20, 1, SVN_INVALID_REVNUM, 1, 170),
     p2l_entry(20, 44, 2, 1, 2, 187),
     p2l_entry(64, 20, 1, SVN_INVALID_REVNUM, 1, 170)>>,
   <<p2l_entry(0, 20, 1, SVN_INVALID_REVNUM, 1, 170),
     p2l_entry(20, 130, 2, 1, 2, 187)>>,
   <<p2l_entry(0, 330, 2, 1, 2, 187)>>}

\* both indexes have been created, the caches are empty
InitWarm ==
  /\ l2p_proto \in WarmL2PLogs
  /\ l2p_index = [exists |-> TRUE,
                  data |-> svn_fs_fs__l2p_index_create(l2p_proto, 0)]
  /\ l2p_header_cache = EmptyHeaderCache
  /\ l2p_page_cache = {}
  /\ p2l_proto \in WarmP2LLogs
  /\ \E data \in svn_fs_fs__p2l_index_create(p2l_proto, 0) :
       p2l_index = [exists |-> TRUE, data |-> data]
  /\ p2l_header_cache = EmptyHeaderCache
  /\ p2l_page_cache = {}
  /\ packed_numbers = <<>>
  /\ packed_file = <<>>
  /\ packed_stream = NullStream
  /\ readers = [r \in Readers |-> IdleReader]
  /\ index_writer = IdleWriter
  /\ serialized = NoItem
  /\ p2l_reader = IdleP2LReader
  /\ temp_context = NoContext
  /\ key_cache = {}
  /\ report = NoReport

NextWarm ==
  \/ L2PIndexLookup
  \/ L2PEvictHeader
  \/ L2PEvictPage
  \/ P2LIndexLookup
  \/ P2LEntryLookup
  \/ P2LGetMaxOffset
  \/ P2LEvictHeader
  \/ P2LEvictPage

SpecWarm == InitWarm /\ [][NextWarm]_vars

----------------------------------------------------------------------------
(* Lookups with the header and the page in the caches. *)

\* the filesystems whose revisions are found through the L2P index
L2PLogAddressedFs ==
  {fs \in FsConfigs : svn_fs_fs__use_log_addressing(fs, 0)}

\* the L2P header is cached and so is the page of (REVISION, ITEM_INDEX)
L2PWarm(revision, item_index) ==
  /\ l2p_header_cache.cached
  /\ \A i \in l2p_page_info_copy(revision, item_index,
                                 l2p_header_cache.value) :
       /\ i.err = SVN_NO_ERROR
       /\ svn_cache__has_key(l2p_page_cache,
                             page_cache_key(revision, i.page_no))

\* the P2L header is cached and so is the page of OFFSET
P2LWarm(offset) ==
  /\ p2l_header_cache.cached
  /\ With(p2l_page_info_copy(offset, p2l_header_cache.value), LAMBDA i :
       /\ i.page_no < i.page_count
       /\ svn_cache__has_key(p2l_page_cache,
                             page_cache_key(i.first_revision, i.page_no)))

\* C33: with the header and the page of the lookup in the caches,
\* item_offset, p2l_index_lookup and p2l_entry_lookup, and with the header
\* in the cache p2l_get_max_offset, succeed and give the same answer when
\* the index file does not exist as when it does, leave no stream open and
\* leave the caches as they are.
C33_WarmLookupsReadNoFile ==
  /\ \A fs \in L2PLogAddressedFs, revision \in L2PLookupRevisions,
        item_index \in L2PLookupItems :
       L2PWarm(revision, item_index) =>
         /\ svn_fs_fs__item_offset(fs, revision, NoTxn, item_index,
                                   l2p_proto, NoFile,
                                   l2p_header_cache, l2p_page_cache)
              = svn_fs_fs__item_offset(fs, revision, NoTxn, item_index,
                                       l2p_proto, l2p_index,
                                       l2p_header_cache, l2p_page_cache)
         /\ \A o \in svn_fs_fs__item_offset(fs, revision, NoTxn,
                       item_index, l2p_proto, NoFile,
                       l2p_header_cache, l2p_page_cache) :
              /\ o.err \in {SVN_NO_ERROR, "SVN_ERR_FS_ITEM_INDEX_OVERFLOW"}
              /\ o.header_cache = l2p_header_cache
              /\ o.page_cache = l2p_page_cache
  /\ \A offset \in P2LPageOffsets \cup P2LEntryOffsets :
       P2LWarm(offset) =>
         /\ With(p2l_index_lookup(0, offset, NullStream, NoFile,
                                  p2l_header_cache, p2l_page_cache),
                 LAMBDA r :
              /\ r.err = SVN_NO_ERROR
              /\ ~r.stream.open
              /\ r = p2l_index_lookup(0, offset, NullStream, p2l_index,
                                      p2l_header_cache, p2l_page_cache)
              /\ r.header_cache = p2l_header_cache
              /\ r.page_cache = p2l_page_cache)
         /\ With(svn_fs_fs__p2l_entry_lookup(0, offset, NoFile,
                   p2l_header_cache, p2l_page_cache), LAMBDA r :
              /\ r.err = SVN_NO_ERROR
              /\ r = svn_fs_fs__p2l_entry_lookup(0, offset, p2l_index,
                       p2l_header_cache, p2l_page_cache)
              /\ r.header_cache = p2l_header_cache
              /\ r.page_cache = p2l_page_cache)
  /\ p2l_header_cache.cached =>
       With(svn_fs_fs__p2l_get_max_offset(0, NoFile, p2l_header_cache),
            LAMBDA r :
         /\ r.err = SVN_NO_ERROR
         /\ r = svn_fs_fs__p2l_get_max_offset(0, p2l_index,
                                              p2l_header_cache)
         /\ r.offset = p2l_proto_end)

\* lookups have filled the caches of both indexes: an item of the second
\* revision and an item at the end of a cluster are answered from the
\* caches while other pages of the indexes are not cached
C33_Witness ==
  /\ L2PWarm(1, 0)
  /\ \E o \in svn_fs_fs__item_offset(CHOOSE fs \in L2PLogAddressedFs : TRUE,
                1, NoTxn, 0, l2p_proto, NoFile,
                l2p_header_cache, l2p_page_cache) :
       o.err = SVN_NO_ERROR /\ o.offset = 300
  /\ ~L2PWarm(0, 2)
  /\ P2LWarm(20)
  /\ ~P2LWarm(64)
  /\ Len(p2l_index_lookup(0, 20, NullStream, NoFile, p2l_header_cache,
                          p2l_page_cache).entries) = 2
  /\ svn_fs_fs__p2l_entry_lookup(0, 20, NoFile, p2l_header_cache,
                                 p2l_page_cache).entry # <<>>

----------------------------------------------------------------------------
(* The pages a P2L lookup prefetches. *)

\* the offsets looked up: the starts of the clusters, up to the sixth
WarmP2LOffsets == P2LPageOffsets \cup {5 * p2l_page_size}

\* the numbers of the pages in the cache
P2LCachedPages(page_cache) == {e.key.page : e \in page_cache}

\* the pages read when the pages of the sequence are gone through with a
\* counter that goes down at a page found in CACHED, goes up at a page
\* that is read and ends the walk at zero
RECURSIVE LeakingBucketReads(_, _, _)
LeakingBucketReads(pages, bucket, cached) ==
  IF pages = <<>> \/ bucket = 0
    THEN {}
    ELSE IF Head(pages) \in cached
      THEN LeakingBucketReads(Tail(pages), bucket - 1, cached)
      ELSE {Head(pages)}
             \cup LeakingBucketReads(Tail(pages), bucket + 1, cached)

\* the pages in front of PAGE_NO whose data is not in front of the block
\* before the data of PAGE_NO, nearest first
P2LPrecedingPages(header, page_no) ==
  With(APR_ALIGN(header.offsets[page_no + 1], block_size) - block_size,
       LAMBDA min_offset :
  With(Cardinality({q \in 0..(page_no - 1) :
                      header.offsets[q + 1] >= min_offset}), LAMBDA n :
    [i \in 1..n |-> page_no - i]))

\* the pages behind PAGE_NO whose data starts in front of the end of the
\* block with the end of the data of PAGE_NO, nearest first
P2LFollowingPages(header, page_no) ==
  With(APR_ALIGN(header.offsets[page_no + 2], block_size),
       LAMBDA max_offset :
  With(Cardinality({q \in (page_no + 1)..(header.page_count - 1) :
                      header.offsets[q + 1] < max_offset}), LAMBDA n :
    [i \in 1..n |-> page_no + i]))

\* C34: p2l_index_lookup of a page that is not cached leaves in the cache
\* the pages that were there, the page itself, and the pages read by a
\* walk over the preceding and a walk over the following pages, each with
\* a counter that starts at 4, goes down at a cached page, up at a page
\* read, and ends the walk at zero; prefetch_p2l_page counts like this.
C34_LeakingBucket ==
  p2l_index.exists =>
    /\ \A offset \in WarmP2LOffsets :
         With(offset \div p2l_page_size, LAMBDA page_no :
           (/\ page_no < P2LHeader.page_count
            /\ page_no \notin P2LCachedPages(p2l_page_cache)) =>
             With(p2l_index_lookup(0, offset, NullStream, p2l_index,
                                   p2l_header_cache, p2l_page_cache),
                  LAMBDA r :
               /\ r.err = SVN_NO_ERROR
               /\ P2LCachedPages(r.page_cache)
                    = P2LCachedPages(p2l_page_cache) \cup {page_no}
                        \cup LeakingBucketReads(
                               P2LPrecedingPages(P2LHeader, page_no), 4,
                               P2LCachedPages(p2l_page_cache))
                        \cup LeakingBucketReads(
                               P2LFollowingPages(P2LHeader, page_no), 4,
                               P2LCachedPages(p2l_page_cache))))
    /\ \A bucket \in 1..5, page_no \in 0..(P2LHeader.page_count - 1) :
         With(prefetch_p2l_page(bucket, NullStream, p2l_index,
                p2l_page_info_copy(page_no * p2l_page_size, P2LHeader), 0,
                p2l_header_cache, p2l_page_cache), LAMBDA r :
           /\ r.err = SVN_NO_ERROR
           /\ IF page_no \in P2LCachedPages(p2l_page_cache)
                THEN /\ r.leaking_bucket = bucket - 1
                     /\ r.end = (bucket = 1)
                     /\ r.page_cache = p2l_page_cache
                ELSE /\ r.leaking_bucket = bucket + 1
                     /\ ~r.end
                     /\ P2LCachedPages(r.page_cache)
                          = P2LCachedPages(p2l_page_cache) \cup {page_no})

\* the four middle pages of six are cached: the lookup of the first page
\* counts down to zero over them and leaves the last page unread, the
\* lookup of the last page leaves the first page unread, although both
\* lie within the prefetched range
C34_Witness ==
  /\ p2l_index.exists
  /\ P2LHeader.page_count = 6
  /\ P2LCachedPages(p2l_page_cache) = {1, 2, 3, 4}
  /\ P2LFollowingPages(P2LHeader, 0) = <<1, 2, 3, 4, 5>>
  /\ P2LPrecedingPages(P2LHeader, 5) = <<4, 3, 2, 1, 0>>
  /\ P2LCachedPages(p2l_index_lookup(0, 0, NullStream, p2l_index,
                      p2l_header_cache, p2l_page_cache).page_cache)
       = {0, 1, 2, 3, 4}
  /\ P2LCachedPages(p2l_index_lookup(0, 5 * p2l_page_size, NullStream,
                      p2l_index, p2l_header_cache,
                      p2l_page_cache).page_cache)
       = {1, 2, 3, 4, 5}

----------------------------------------------------------------------------
(* The proto log of a revision and the index built from it. *)

\* the item indexes the log has records for
L2PRecordedItems(log) == {log[k].item_index : k \in 1..Len(log)}

\* the log has no record written by add_revision behind its first record
L2POneRevision(log) == L2PMarkers(log) = {}

\* the proto log and the index built from it give ITEM_INDEX one offset
L2PProtoAgreesWithIndex(item_index) ==
  L2PResults(L2PHeader.first_revision, item_index,
             l2p_header_cache, l2p_page_cache)
    = {[err |-> SVN_NO_ERROR,
        offset |-> l2p_proto_index_lookup(l2p_proto, 1, item_index)]}

\* C35: for a proto log of one revision, the lookup in the proto log and
\* the lookup in the index built from the log return the same offset for
\* every item index the log has a record for.
C35_ProtoAndIndexAgree ==
  (l2p_index.exists /\ L2POneRevision(l2p_proto)) =>
    \A item_index \in L2PRecordedItems(l2p_proto) :
      L2PProtoAgreesWithIndex(item_index)

\* the same for the logs that record every item index once, with an
\* offset, behind a first record that may be an end-of-revision marker
C35_ProtoAndIndexAgreeOnce ==
  (/\ l2p_index.exists
   /\ L2POneRevision(l2p_proto)
   /\ \A k \in 2..Len(l2p_proto) : l2p_proto[k].offset # 0
   /\ \A j, k \in 1..Len(l2p_proto) :
        l2p_proto[j].item_index = l2p_proto[k].item_index => j = k) =>
    \A item_index \in L2PRecordedItems(l2p_proto) :
      L2PProtoAgreesWithIndex(item_index)

----------------------------------------------------------------------------
(* Lookups step by step in a packed shard whose index exists: one          *)
(* l2p_index_lookup and one P2L lookup, a round of a loop per step, with    *)
(* the caches evicting in between.  A lookup that has started keeps         *)
(* running: it is the thread of its caller.                                 *)

\* the condition of the loop "pre-fetch preceding pages"
p2l_preceding_continues(rec) ==
  rec.baton.offset >= rec.baton.page_size /\ ~rec.end

\* the condition of the loop "pre-fetch following pages"
p2l_following_continues(rec) ==
  /\ rec.baton.next_offset < rec.max_offset
  /\ rec.baton.page_no + 1 < rec.baton.page_count
  /\ ~rec.end

\* the lookup returns ERR or ENTRIES; p2l_entry_lookup returns the entry
\* of ENTRIES that starts at the offset
p2l_reader_return(rec, err, entries) ==
  [IdleP2LReader EXCEPT !.pc = "done", !.kind = rec.kind,
                        !.offset = rec.offset, !.err = err,
                        !.entries =
                          IF rec.kind = "entry" /\ err = SVN_NO_ERROR
                            THEN get_p2l_entry_from_cached_page(entries,
                                                                rec.offset)
                            ELSE entries,
                        !.preceding = rec.preceding,
                        !.following = rec.following]

\* a round of the backward loop that does not move to the preceding page
p2l_reader_preceding_stuck(rec, r) ==
  IF r.err # SVN_NO_ERROR
    THEN p2l_reader_return(rec, r.err, <<>>)
    ELSE [rec EXCEPT !.baton = [r.baton EXCEPT !.offset = rec.baton.offset],
                     !.end = r.end,
                     !.leaking_bucket = r.leaking_bucket,
                     !.stream = r.stream,
                     !.preceding = Min(@ + 1, MaxLoopRounds)]

\* the reader after the round R of the backward loop
p2l_reader_preceding(rec, r) ==
  IF r.err # SVN_NO_ERROR
    THEN p2l_reader_return(rec, r.err, <<>>)
    ELSE [rec EXCEPT !.baton = r.baton, !.end = r.end,
                     !.leaking_bucket = r.leaking_bucket,
                     !.stream = r.stream,
                     !.preceding = Min(@ + 1, MaxLoopRounds)]

\* the reader after the round R of the forward loop
p2l_reader_following(rec, r) ==
  IF r.err # SVN_NO_ERROR
    THEN p2l_reader_return(rec, r.err, <<>>)
    ELSE [rec EXCEPT !.baton = r.baton, !.end = r.end,
                     !.leaking_bucket = r.leaking_bucket,
                     !.stream = r.stream,
                     !.following = Min(@ + 1, MaxLoopRounds)]

\* the offsets the P2L reader asks for
P2LReaderOffsets == {q * p2l_page_size : q \in {0, 2, 5, 6}}

\* a shard with its L2P index, or a shard with its P2L index
InitLookups ==
  /\ \/ /\ l2p_proto \in ReaderLogs
        /\ l2p_index = [exists |-> TRUE,
                        data |-> svn_fs_fs__l2p_index_create(l2p_proto, 0)]
        /\ p2l_proto = <<>>
        /\ p2l_index = NoFile
     \/ /\ l2p_proto = <<>>
        /\ l2p_index = NoFile
        /\ p2l_proto \in WarmP2LLogs
        /\ \E data \in svn_fs_fs__p2l_index_create(p2l_proto, 0) :
             p2l_index = [exists |-> TRUE, data |-> data]
  /\ l2p_header_cache = EmptyHeaderCache
  /\ l2p_page_cache = {}
  /\ p2l_header_cache = EmptyHeaderCache
  /\ p2l_page_cache = {}
  /\ packed_numbers = <<>>
  /\ packed_file = <<>>
  /\ packed_stream = NullStream
  /\ readers = [r \in Readers |-> IdleReader]
  /\ index_writer = IdleWriter
  /\ serialized = NoItem
  /\ p2l_reader = IdleP2LReader
  /\ temp_context = NoContext
  /\ key_cache = {}
  /\ report = NoReport

\* svn_fs_fs__item_offset of a revision of the shard: l2p_index_lookup
\* starts
ItemOffsetStart ==
  /\ l2p_index.exists
  /\ readers[1].pc = "idle"
  /\ \E lookup \in ReaderLookups :
       readers' = [readers EXCEPT ![1] =
         [IdleReader EXCEPT !.pc = "get_page_info",
                            !.revision = lookup.revision,
                            !.item_index = lookup.item_index]]
  /\ UNCHANGED <<l2p_vars, p2l_vars, stream_vars, index_writer, serialized, other_vars>>

\* svn_fs_fs__p2l_index_lookup or svn_fs_fs__p2l_entry_lookup starts
P2LReaderStart ==
  /\ p2l_index.exists
  /\ p2l_reader.pc = "idle"
  /\ \E kind \in {"index", "entry"}, offset \in P2LReaderOffsets :
       p2l_reader' = [IdleP2LReader EXCEPT !.pc = "keys", !.kind = kind,
                                           !.offset = offset]
  /\ UNCHANGED <<l2p_vars, p2l_vars, stream_vars, readers, index_writer, serialized, temp_context, key_cache, report>>

\* get_p2l_keys and the look into the page cache; after a miss "find
\* the pre-fetch window"
P2LReaderGetKeys ==
  /\ p2l_reader.pc = "keys"
  /\ \E k \in {get_p2l_keys(0, p2l_reader.offset, p2l_reader.stream,
                            p2l_index, p2l_header_cache)} :
       /\ p2l_header_cache' = k.header_cache
       /\ p2l_reader' =
            IF k.err # SVN_NO_ERROR
              THEN p2l_reader_return(p2l_reader, k.err, <<>>)
            ELSE IF svn_cache__has_key(p2l_page_cache, k.key)
              THEN p2l_reader_return(p2l_reader, SVN_NO_ERROR,
                                     svn_cache__get(p2l_page_cache, k.key))
              ELSE [p2l_reader EXCEPT
                      !.pc = "preceding", !.stream = k.stream,
                      !.page_info = k.page_info, !.key = k.key,
                      !.baton = [k.page_info EXCEPT
                                   !.offset = k.page_info.page_start],
                      !.leaking_bucket = 4, !.end = FALSE,
                      !.max_offset = APR_ALIGN(k.page_info.next_offset,
                                               block_size),
                      !.min_offset = APR_ALIGN(k.page_info.start_offset,
                                               block_size) - block_size]
  /\ UNCHANGED <<p2l_proto, p2l_index, p2l_page_cache, l2p_vars, stream_vars, readers, index_writer, serialized, temp_context, key_cache, report>>

\* a round of "pre-fetch preceding pages"
P2LReaderPrefetchPreceding ==
  /\ p2l_reader.pc = "preceding"
  /\ p2l_preceding_continues(p2l_reader)
  /\ \E r \in {prefetch_p2l_page(p2l_reader.leaking_bucket,
                 p2l_reader.stream, p2l_index,
                 [p2l_reader.baton EXCEPT
                    !.offset = @ - p2l_reader.baton.page_size],
                 p2l_reader.min_offset, p2l_header_cache,
                 p2l_page_cache)} :
       /\ p2l_header_cache' = r.header_cache
       /\ p2l_page_cache' = r.page_cache
       /\ p2l_reader' = p2l_reader_preceding(p2l_reader, r)
  /\ UNCHANGED <<p2l_proto, p2l_index, l2p_vars, stream_vars, readers, index_writer, serialized, temp_context, key_cache, report>>

\* "fetch page from disk and put it into the cache"
P2LReaderGetPage ==
  /\ p2l_reader.pc = "preceding"
  /\ ~p2l_preceding_continues(p2l_reader)
  /\ \E info \in {p2l_reader.page_info} :
     \E pg \in {get_p2l_page(p2l_reader.stream, p2l_index,
                             info.first_revision, info.start_offset,
                             info.next_offset, info.page_start,
                             info.page_size)} :
       IF pg.err # SVN_NO_ERROR
         THEN /\ p2l_reader' = p2l_reader_return(p2l_reader, pg.err, <<>>)
              /\ UNCHANGED p2l_page_cache
         ELSE /\ p2l_reader' =
                   [p2l_reader EXCEPT
                      !.pc = "following", !.stream = pg.stream,
                      !.entries = pg.entries,
                      !.baton = [info EXCEPT !.offset = info.page_start],
                      !.leaking_bucket = 4, !.end = FALSE]
              /\ p2l_page_cache' =
                   svn_cache__set(p2l_page_cache, p2l_reader.key,
                                  pg.entries)
  /\ UNCHANGED <<p2l_proto, p2l_index, p2l_header_cache, l2p_vars, stream_vars, readers, index_writer, serialized, temp_context, key_cache, report>>

\* a round of "pre-fetch following pages"
P2LReaderPrefetchFollowing ==
  /\ p2l_reader.pc = "following"
  /\ p2l_following_continues(p2l_reader)
  /\ \E r \in {prefetch_p2l_page(p2l_reader.leaking_bucket,
                 p2l_reader.stream, p2l_index,
                 [p2l_reader.baton EXCEPT
                    !.offset = @ + p2l_reader.baton.page_size],
                 p2l_reader.min_offset, p2l_header_cache,
                 p2l_page_cache)} :
       /\ p2l_header_cache' = r.header_cache
       /\ p2l_page_cache' = r.page_cache
       /\ p2l_reader' = p2l_reader_following(p2l_reader, r)
  /\ UNCHANGED <<p2l_proto, p2l_index, l2p_vars, stream_vars, readers, index_writer, serialized, temp_context, key_cache, report>>

\* the forward loop is left: the lookup returns the page
P2LReaderFinish ==
  /\ p2l_reader.pc = "following"
  /\ ~p2l_following_continues(p2l_reader)
  /\ p2l_reader' = p2l_reader_return(p2l_reader, SVN_NO_ERROR,
                                     p2l_reader.entries)
  /\ UNCHANGED <<l2p_vars, p2l_vars, stream_vars, readers, index_writer, serialized, temp_context, key_cache, report>>

\* the caller takes the result
P2LReaderReturn ==
  /\ p2l_reader.pc = "done"
  /\ p2l_reader' = IdleP2LReader
  /\ UNCHANGED <<l2p_vars, p2l_vars, stream_vars, readers, index_writer, serialized, temp_context, key_cache, report>>

\* the steps of l2p_index_lookup once it has started
L2PReaderStep ==
  \/ ReaderGetPageInfo
  \/ ReaderSetHeader
  \/ ReaderGetPage
  \/ ReaderSetPage
  \/ ReaderPrefetchTable
  \/ ReaderPrefetchHasKey
  \/ ReaderPrefetchSet

\* the steps of a P2L lookup once it has started
P2LReaderStep ==
  \/ P2LReaderGetKeys
  \/ P2LReaderPrefetchPreceding
  \/ P2LReaderGetPage
  \/ P2LReaderPrefetchFollowing
  \/ P2LReaderFinish

NextLookups ==
  \/ ItemOffsetStart
  \/ ReaderGetPageInfo
  \/ ReaderSetHeader
  \/ ReaderGetPage
  \/ ReaderSetPage
  \/ ReaderPrefetchTable
  \/ ReaderPrefetchHasKey
  \/ ReaderPrefetchSet
  \/ ReaderReturn
  \/ L2PEvictHeader
  \/ L2PEvictPage
  \/ P2LReaderStart
  \/ P2LReaderGetKeys
  \/ P2LReaderPrefetchPreceding
  \/ P2LReaderGetPage
  \/ P2LReaderPrefetchFollowing
  \/ P2LReaderFinish
  \/ P2LReaderReturn
  \/ P2LEvictHeader
  \/ P2LEvictPage

\* a lookup runs from its start to its return; a step of it is enabled
\* in these states and in no other
L2PReaderRuns == readers[1].pc \notin {"idle", "done"}
P2LReaderRuns == p2l_reader.pc \notin {"idle", "done"}

\* the thread of a lookup is scheduled until the lookup returns: weak
\* fairness of the steps of each lookup, WF_vars(L2PReaderStep) and
\* WF_vars(P2LReaderStep), with ENABLED <<...>>_vars written as the states
\* in which the lookup runs
SpecLookups ==
  /\ InitLookups
  /\ [][NextLookups]_vars
  /\ ([]<>~L2PReaderRuns \/ []<><<L2PReaderStep>>_vars)
  /\ ([]<>~P2LReaderRuns \/ []<><<P2LReaderStep>>_vars)

----------------------------------------------------------------------------
(* Termination of the lookups. *)

\* the reader is in one of the rounds of the loops over the revisions
L2PReaderPrefetches(rec) ==
  rec.pc \in {"prefetch_table", "prefetch_has_key", "prefetch_set"}

\* the revisions the forward loop and the backward loop of REC go through
L2PPrefetchRange(rec) ==
  IF rec.dir = 1
    THEN rec.revision..(rec.info.first_revision + max_files_per_dir - 1)
    ELSE rec.info.first_revision..(rec.revision - 1)

\* "read all entries of this page" for the page of INFO, from a new stream
P2LPageDecode(info) ==
  With(packed_stream_get(packed_stream_seek(NewStream, info.start_offset),
                         p2l_index.data), LAMBDA g :
    p2l_read_entries(g.stream, p2l_index.data, g.value,
                     info.first_revision, 0, info.next_offset, <<>>))

\* the decode loop of the page ends with the stream at or behind the end
\* of the page; all its rounds but the last took four numbers of the page
P2LDecodeEnds(info) ==
  With(P2LPageDecode(info), LAMBDA p :
    /\ p.err = SVN_NO_ERROR
    /\ packed_stream_offset(p.stream) >= info.next_offset
    /\ 4 * (Len(p.result) - 1) <= info.next_offset - info.start_offset)

\* the loops stay in the revisions of the shard and the pages of the index
C36_LoopBounds ==
  /\ L2PReaderPrefetches(readers[1]) =>
       readers[1].prefetch_revision \in L2PPrefetchRange(readers[1])
  /\ p2l_reader.pc \in {"preceding", "following"} =>
       /\ p2l_reader.preceding <= p2l_reader.page_info.page_no
       /\ p2l_reader.following
            <= p2l_reader.page_info.page_count
                 - p2l_reader.page_info.page_no - 1
       /\ P2LDecodeEnds(p2l_reader.baton)
       /\ P2LDecodeEnds(p2l_reader.page_info)

\* a new round of a loop over the revisions is for the next revision in
\* the direction of the loop
C36_LoopsAdvance ==
  (/\ L2PReaderPrefetches(readers[1])
   /\ readers'[1] # readers[1]
   /\ readers'[1].pc = "prefetch_table"
   /\ readers'[1].dir = readers[1].dir) =>
    readers'[1].prefetch_revision
      = readers[1].prefetch_revision + readers[1].dir

\* a lookup is running
C36_InLookup == readers[1].pc # "idle" \/ p2l_reader.pc # "idle"

\* C36: every item_offset, p2l_index_lookup and p2l_entry_lookup call on a
\* well-formed index returns: the loops over the revisions visit every
\* revision of the shard at most once, the loops over the P2L pages run at
\* most once per page of the index, and the decode loop of a P2L page ends
\* with the stream at the end of the page.
C36_LookupsTerminate ==
  /\ []C36_LoopBounds
  /\ [][C36_LoopsAdvance]_vars
  /\ (readers[1].pc # "idle") ~> (readers[1].pc = "done")
  /\ (p2l_reader.pc # "idle") ~> (p2l_reader.pc = "done")

\* p2l_index_lookup has returned the page after two rounds of each loop
C36_Witness ==
  /\ p2l_reader.pc = "done"
  /\ p2l_reader.kind = "index"
  /\ p2l_reader.err = SVN_NO_ERROR
  /\ p2l_reader.preceding >= 2
  /\ p2l_reader.following >= 2
  /\ Len(p2l_reader.entries) > 0

----------------------------------------------------------------------------
(* temp_serializer.c: the serialization of the FSFS cache items.  The      *)
(* context keeps the stack of the structures being serialized (SOURCE),    *)
(* the structures and strings written so far (BUFFER), and the counts of   *)
(* the calls of push and pop.                                              *)

\* a NULL pointer; a pointer that is set names the field that holds it
Null == [null |-> TRUE]

\* svn_temp_serializer__init for the structure ROOT, NULL for none
temp_serializer_init(root) ==
  [exists |-> TRUE,
   source |-> IF root.null THEN <<>> ELSE <<root.type>>,
   buffer |-> IF root.null THEN <<>> ELSE <<root.type>>,
   pushes |-> 0, pops |-> 0]

\* svn_temp_serializer__push: the structure is appended to the buffer and
\* becomes the current one
svn_temp_serializer__push(context, struct) ==
  [context EXCEPT !.source = Append(@, struct),
                  !.buffer = Append(@, struct),
                  !.pushes = @ + 1]

\* svn_temp_serializer__pop: back to the structure one level up
svn_temp_serializer__pop(context) ==
  [context EXCEPT !.source = SubSeq(@, 1, Len(@) - 1),
                  !.pops = @ + 1]

\* svn_temp_serializer__add_string: the string is appended to the buffer
svn_temp_serializer__add_string(context, string) ==
  [context EXCEPT !.buffer = Append(@, string)]

\* svn_fs_fs__id_serialize: the id and its strings
svn_fs_fs__id_serialize(context, id) ==
  IF id.null
    THEN context
    ELSE svn_temp_serializer__pop(
           svn_temp_serializer__add_string(
             svn_temp_serializer__add_string(
               svn_temp_serializer__add_string(
                 svn_temp_serializer__push(context, id.field),
                 "node_id"), "copy_id"), "txn_id"))

\* serialize_svn_string
serialize_svn_string(context, s) ==
  IF s.null
    THEN context
    ELSE svn_temp_serializer__pop(
           svn_temp_serializer__pop(
             svn_temp_serializer__push(
               svn_temp_serializer__push(context, s.field),
               "data")))

\* serialize_checksum
serialize_checksum(context, cs) ==
  IF cs.null
    THEN context
    ELSE svn_temp_serializer__pop(
           svn_temp_serializer__pop(
             svn_temp_serializer__push(
               svn_temp_serializer__push(context, cs.field),
               "digest")))

\* serialize_representation
serialize_representation(context, rep) ==
  IF rep.null
    THEN context
    ELSE svn_temp_serializer__pop(
           svn_temp_serializer__add_string(
             svn_temp_serializer__add_string(
               serialize_checksum(
                 serialize_checksum(
                   svn_temp_serializer__push(context, rep.field),
                   rep.md5_checksum),
                 rep.sha1_checksum),
               "txn_id"), "uniquifier"))

\* "serialize the individual entries and their sub-structures": the loop
\* of serialize_dir from entry I on
RECURSIVE serialize_dir_loop(_, _, _)
serialize_dir_loop(context, entries, i) ==
  IF i > Len(entries)
    THEN context
    ELSE serialize_dir_loop(
           svn_temp_serializer__pop(
             svn_temp_serializer__add_string(
               svn_fs_fs__id_serialize(
                 svn_temp_serializer__push(context, "svn_fs_dirent_t"),
                 entries[i].id),
               entries[i].name)),
           entries, i + 1)

\* the entries in the strcmp order of their names, which are one character
\* long
RECURSIVE sort_dirents(_)
sort_dirents(entries) ==
  IF entries = {}
    THEN <<>>
    ELSE With(CHOOSE e \in entries : \A f \in entries : e.name <= f.name,
              LAMBDA e : <<e>> \o sort_dirents(entries \ {e}))

\* serialize_dir: the new context with the directory in it
serialize_dir(entries) ==
  serialize_dir_loop(
    svn_temp_serializer__push(
      temp_serializer_init([null |-> FALSE, type |-> "hash_data_t"]),
      "entries"),
    sort_dirents(entries), 1)

\* svn_fs_fs__noderev_serialize
svn_fs_fs__noderev_serialize(context, noderev) ==
  IF noderev.null
    THEN context
    ELSE svn_temp_serializer__pop(
           svn_temp_serializer__add_string(
             svn_temp_serializer__add_string(
               svn_temp_serializer__add_string(
                 serialize_representation(
                   serialize_representation(
                     svn_fs_fs__id_serialize(
                       svn_fs_fs__id_serialize(
                         svn_temp_serializer__push(context, noderev.field),
                         noderev.id),
                       noderev.predecessor_id),
                     noderev.prop_rep),
                   noderev.data_rep),
                 "copyfrom_path"), "copyroot_path"), "created_path"))

\* serialize_txdelta_ops
serialize_txdelta_ops(context, ops, count) ==
  IF ops.null
    THEN context
    ELSE svn_temp_serializer__pop(
           svn_temp_serializer__push(context,
             IF count = 1 THEN "svn_txdelta_op_t[1]"
                          ELSE "svn_txdelta_op_t[]"))

\* serialize_txdeltawindow
serialize_txdeltawindow(context, w) ==
  svn_temp_serializer__pop(
    serialize_svn_string(
      serialize_txdelta_ops(
        svn_temp_serializer__push(context, "svn_txdelta_window_t"),
        w.ops, w.num_ops),
      w.new_data))

\* the items that are serialized: the pointer of FIELD, NULL or set
PointersOf(field) == {Null, [null |-> FALSE, field |-> field]}
RepresentationsOf(field) ==
  {Null} \cup [null : {FALSE}, field : {field},
               md5_checksum : PointersOf("md5_checksum"),
               sha1_checksum : PointersOf("sha1_checksum")]
Checksums == PointersOf("md5_checksum") \cup PointersOf("sha1_checksum")
Representations ==
  RepresentationsOf("prop_rep") \cup RepresentationsOf("data_rep")
FsIds == PointersOf("id")
NodeRevisions ==
  {Null} \cup [null : {FALSE}, field : {"noderev"},
               id : PointersOf("id"),
               predecessor_id : PointersOf("predecessor_id"),
               prop_rep : RepresentationsOf("prop_rep"),
               data_rep : RepresentationsOf("data_rep")]
SvnStrings == PointersOf("new_data")
TxdeltaWindows ==
  [ops : PointersOf("ops"), num_ops : {1, 2}, new_data : SvnStrings]
Dirents == [id : {[null |-> FALSE, field |-> "id"]}, name : {97, 98, 99}]
Directories == SUBSET Dirents

\* svn_fs_fs__serialize_txdelta_window
SerializeTxdeltaWindow ==
  /\ \E w \in TxdeltaWindows :
       temp_context' =
         serialize_txdeltawindow(
           temp_serializer_init([null |-> FALSE,
                                 type |-> "svn_fs_fs__txdelta_cached_window_t"]),
           w)
  /\ UNCHANGED <<l2p_vars, p2l_vars, stream_vars, readers, index_writer, serialized, p2l_reader, key_cache, report>>

\* svn_fs_fs__serialize_id
SerializeId ==
  /\ \E id \in FsIds \ {Null} :
       temp_context' = svn_fs_fs__id_serialize(temp_serializer_init(Null), id)
  /\ UNCHANGED <<l2p_vars, p2l_vars, stream_vars, readers, index_writer, serialized, p2l_reader, key_cache, report>>

\* svn_fs_fs__serialize_node_revision
SerializeNodeRevision ==
  /\ \E noderev \in NodeRevisions \ {Null} :
       temp_context' =
         svn_fs_fs__noderev_serialize(temp_serializer_init(Null), noderev)
  /\ UNCHANGED <<l2p_vars, p2l_vars, stream_vars, readers, index_writer, serialized, p2l_reader, key_cache, report>>

\* svn_fs_fs__serialize_dir_entries
SerializeDirEntries ==
  /\ \E dir \in Directories : temp_context' = serialize_dir(dir)
  /\ UNCHANGED <<l2p_vars, p2l_vars, stream_vars, readers, index_writer, serialized, p2l_reader, key_cache, report>>

NextTempSerializer ==
  \/ SerializeTxdeltaWindow
  \/ SerializeId
  \/ SerializeNodeRevision
  \/ SerializeDirEntries

SpecTempSerializer == Init /\ [][NextTempSerializer]_vars

----------------------------------------------------------------------------
(* The nesting level of the serialization routines. *)

\* AFTER is at the nesting level of BEFORE, after as many pops as pushes
BackAtLevel(before, after) ==
  /\ after.source = before.source
  /\ after.pushes - before.pushes = after.pops - before.pops

\* the context a routine is called with: the one at hand, with a
\* structure of the caller pushed
CallerContext ==
  svn_temp_serializer__push(
    IF temp_context.exists THEN temp_context ELSE temp_serializer_init(Null),
    "caller")

\* the routines that work in the context of their caller return at the
\* nesting level they were called at
PushPopBalanceInContext ==
  /\ \A s \in SvnStrings :
       BackAtLevel(CallerContext, serialize_svn_string(CallerContext, s))
  /\ \A cs \in Checksums :
       BackAtLevel(CallerContext, serialize_checksum(CallerContext, cs))
  /\ \A rep \in Representations :
       BackAtLevel(CallerContext,
                   serialize_representation(CallerContext, rep))
  /\ \A noderev \in NodeRevisions :
       BackAtLevel(CallerContext,
                   svn_fs_fs__noderev_serialize(CallerContext, noderev))
  /\ \A w \in TxdeltaWindows :
       /\ BackAtLevel(CallerContext,
                      serialize_txdelta_ops(CallerContext, w.ops, w.num_ops))
       /\ BackAtLevel(CallerContext,
                      serialize_txdeltawindow(CallerContext, w))

\* serialize_dir hands back its context at the level of the root, after as
\* many pops as pushes
PushPopBalanceOfDir ==
  \A dir \in Directories :
    BackAtLevel(temp_serializer_init([null |-> FALSE,
                                      type |-> "hash_data_t"]),
                serialize_dir(dir))

\* C37: every serialization routine of temp_serializer.c
\* (serialize_svn_string, serialize_checksum, serialize_representation,
\* serialize_dir, svn_fs_fs__noderev_serialize, serialize_txdelta_ops,
\* serialize_txdeltawindow) issues as many pops as pushes, so that the
\* context is back at the nesting level of the caller when it returns.
C37_PushPopBalance ==
  PushPopBalanceInContext /\ PushPopBalanceOfDir

----------------------------------------------------------------------------
(* temp_serializer.c: the cache keys.  A key is the sequence of its bytes   *)
(* in front of the terminating zero; apr_int64_t has the width of the       *)
(* model's apr_uint64_t.                                                    *)

APR_INT64_MIN == -(2 ^ (UINT64_BITS - 1))
APR_INT64_MAX == 2 ^ (UINT64_BITS - 1) - 1

\* "number = -number": the outcomes; the negation of APR_INT64_MIN
\* overflows, which leaves the number as it is or traps (no key is built)
negate_int64(number) ==
  IF number = APR_INT64_MIN THEN {APR_INT64_MIN} ELSE {-number}

\* the division of C, which rounds towards zero
div_int64(number, divisor) ==
  IF number < 0 THEN -((-number) \div divisor) ELSE number \div divisor

\* a loop whose bytes start at the space
RECURSIVE encode_number_loop_from_space(_, _)
encode_number_loop_from_space(number, key_buffer) ==
  IF number # 0
    THEN encode_number_loop_from_space(div_int64(number, 128),
           Append(key_buffer, (number % 128) + 32))
    ELSE key_buffer

\* "write 7 bits / byte until no significant bits are left"
RECURSIVE encode_number_loop(_, _)
encode_number_loop(number, key_buffer) ==
  IF number # 0
    THEN encode_number_loop(div_int64(number, 128),
                            Append(key_buffer, (number % 128) + 32 + 1))
    ELSE key_buffer

\* encode_number: the bytes written to KEY_BUFFER, for each outcome of the
\* negation
encode_number(number) ==
  IF number < 0
    THEN {encode_number_loop(div_int64(n, 64), <<(n % 64) + 32 + 65>>)
          : n \in negate_int64(number)}
    ELSE {encode_number_loop(div_int64(number, 64),
                             <<(number % 64) + 32 + 1>>)}

\* svn_fs_fs__combine_number_and_string: the keys it can return
svn_fs_fs__combine_number_and_string(number, string) ==
  {key \o <<32>> \o string : key \in encode_number(number)}

\* svn_fs_fs__combine_two_numbers: the keys it can return
svn_fs_fs__combine_two_numbers(a, b) ==
  {key_a \o <<32>> \o key_b :
     key_a \in encode_number(a), key_b \in encode_number(b)}

\* the numbers and the strings keys are built from: the strings hold
\* spaces, bytes of encoded numbers and letters
KeyNumbers ==
  {APR_INT64_MIN, -8192, -65, -64, -63, -1, 0, 1, 63, 64, 65, 127, 128,
   8191, 8192, APR_INT64_MAX}
KeyChars == {32, 33, 97}
KeyStrings ==
  {<<>>} \cup {<<c>> : c \in KeyChars}
         \cup {<<c, d>> : c \in KeyChars, d \in KeyChars}

\* a key built by svn_fs_fs__combine_two_numbers is kept
CombineTwoNumbers ==
  /\ Cardinality(key_cache) < MaxKeys
  /\ \E a \in KeyNumbers, b \in KeyNumbers :
       \E key \in svn_fs_fs__combine_two_numbers(a, b) :
         key_cache' = key_cache \cup
           {[fn |-> "combine_two_numbers", number |-> a, rest |-> <<b>>,
             key |-> key]}
  /\ UNCHANGED <<l2p_vars, p2l_vars, stream_vars, readers, index_writer, serialized, p2l_reader, temp_context, report>>

\* a key built by svn_fs_fs__combine_number_and_string is kept
CombineNumberAndString ==
  /\ Cardinality(key_cache) < MaxKeys
  /\ \E number \in KeyNumbers, string \in KeyStrings :
       \E key \in svn_fs_fs__combine_number_and_string(number, string) :
         key_cache' = key_cache \cup
           {[fn |-> "combine_number_and_string", number |-> number,
             rest |-> string, key |-> key]}
  /\ UNCHANGED <<l2p_vars, p2l_vars, stream_vars, readers, index_writer, serialized, p2l_reader, temp_context, report>>

NextKeys ==
  \/ CombineTwoNumbers
  \/ CombineNumberAndString

SpecKeys == Init /\ [][NextKeys]_vars

\* C38: the cache keys are injective: svn_fs_fs__combine_two_numbers gives
\* two different pairs of numbers different keys, and
\* svn_fs_fs__combine_number_and_string gives two different combinations of
\* a number and a string different keys.
C38_KeysInjective ==
  \A x \in key_cache, y \in key_cache :
    (x.fn = y.fn /\ x.key = y.key) =>
      (x.number = y.number /\ x.rest = y.rest)

\* the keys of (8192, "") and (0, "! ") have been built: the bytes of the
\* string of the second are the ones an encoded number and the separator
\* could be
C38_Witness ==
  /\ [fn |-> "combine_number_and_string", number |-> 8192, rest |-> <<>>,
      key |-> <<33, 33, 34, 32>>] \in key_cache
  /\ [fn |-> "combine_number_and_string", number |-> 0, rest |-> <<33, 32>>,
      key |-> <<33, 32, 33, 32>>] \in key_cache

----------------------------------------------------------------------------
(* mod_dav_svn/file_revs.c: the file-revs REPORT.  REPORT holds the baton   *)
(* (needs_header, window_handler), the revisions svn_repos_get_file_revs    *)
(* still has to deliver and the windows of the revision being delivered,    *)
(* what has been written to the brigade (OUTPUT), the write during which    *)
(* the client drops the connection (ABORT_AT, 0 for none) and whether it    *)
(* has done so.                                                             *)

REPORT_HEADER == "<S:file-revs-report>"
REPORT_FOOTER == "</S:file-revs-report>"
FILE_REV == "<S:file-rev>"
FILE_REV_END == "</S:file-rev>"
TXDELTA == "<S:txdelta>"
TXDELTA_END == "</S:txdelta></S:file-rev>"
REV_PROP == "<S:rev-prop>"
SVNDIFF == "svndiff"

\* a write to the brigade, which passes it on to the connection; the
\* connection is lost during write number ABORT_AT
brigade_write(frb, text) ==
  [frb EXCEPT !.output = Append(@, text),
              !.aborted = @ \/ Len(frb.output) + 1 = frb.abort_at]

\* send_xml: the text goes to the brigade; an aborted connection is an
\* error
send_xml(frb, text) ==
  With(brigade_write(frb, text), LAMBDA written :
    [written EXCEPT !.err = written.aborted])

\* a header that is sent whenever it is asked for
maybe_send_header_again(frb) ==
  IF frb.needs_header
    THEN send_xml(frb, REPORT_HEADER)
    ELSE frb

\* maybe_send_header
maybe_send_header(frb) ==
  IF frb.needs_header
    THEN With(send_xml(frb, REPORT_HEADER), LAMBDA sent :
           IF sent.err THEN sent ELSE [sent EXCEPT !.needs_header = FALSE])
    ELSE frb

\* "Send rev props": COUNT of them
RECURSIVE send_rev_props(_, _)
send_rev_props(frb, count) ==
  IF frb.err \/ count = 0
    THEN frb
    ELSE send_rev_props(send_xml(frb, REV_PROP), count - 1)

\* the window handler svn_txdelta_to_svndiff made: the svndiff data of a
\* window goes through the base64 stream to the brigade
svndiff_window_handler(frb, window) ==
  IF window = "NULL"
    THEN frb
    ELSE brigade_write(frb, SVNDIFF)

\* a window handler that terminates the elements after every window
delta_window_handler_closing(frb, window) ==
  With(svndiff_window_handler(frb, window), LAMBDA forwarded :
    IF forwarded.err THEN forwarded ELSE
      send_xml([forwarded EXCEPT !.window_handler = (window # "NULL")],
               TXDELTA_END))

\* delta_window_handler
delta_window_handler(frb, window) ==
  With(svndiff_window_handler(frb, window), LAMBDA forwarded :
    IF forwarded.err THEN forwarded
    ELSE IF window = "NULL"
      THEN send_xml([forwarded EXCEPT !.window_handler = FALSE],
                    TXDELTA_END)
      ELSE forwarded)

\* file_rev_handler for the revision REV: [props, delta, windows]; DELTA
\* says that the caller passed a WINDOW_HANDLER to fill in
file_rev_handler(frb, rev) ==
  With(maybe_send_header(frb), LAMBDA header :
    IF header.err THEN header ELSE
  With(send_xml(header, FILE_REV), LAMBDA start :
    IF start.err THEN start ELSE
  With(send_rev_props(start, rev.props), LAMBDA props :
    IF props.err THEN props
    ELSE IF rev.delta
      THEN send_xml([props EXCEPT !.window_handler = TRUE], TXDELTA)
      ELSE send_xml(props, FILE_REV_END))))

\* the revisions svn_repos_get_file_revs delivers
FileRevisions ==
  [props : 0..1, delta : {FALSE}, windows : {0}]
    \cup [props : 0..1, delta : {TRUE}, windows : 0..MaxWindows]
FileRevisionLists ==
  UNION {[1..n -> FileRevisions] : n \in 0..MaxFileRevs}

\* the report is over with the error ERR, after "cleanup"
report_return(frb, err) ==
  [frb EXCEPT !.pc = "done", !.err = err, !.revs = <<>>, !.windows = 0]

\* dav_svn__file_revs_report up to the call of svn_repos_get_file_revs;
\* a request without the svn: namespace is refused
FileRevsReport ==
  /\ report.pc = "idle"
  /\ \E ns \in {-1, 0}, revs \in FileRevisionLists, at \in 0..MaxWrites :
       report' =
         IF ns = -1
           THEN report_return(NoReport, TRUE)
           ELSE [NoReport EXCEPT !.pc = "get_file_revs",
                                 !.needs_header = TRUE, !.revs = revs,
                                 !.abort_at = at]
  /\ UNCHANGED <<l2p_vars, p2l_vars, stream_vars, readers, index_writer, serialized, p2l_reader, temp_context, key_cache>>

\* svn_repos_get_file_revs calls file_rev_handler for the next revision
FileRevHandler ==
  /\ report.pc = "get_file_revs"
  /\ report.revs # <<>>
  /\ \E frb \in {file_rev_handler(report, Head(report.revs))} :
       report' =
         IF frb.err
           THEN report_return(frb, TRUE)
         ELSE IF Head(report.revs).delta
           THEN [frb EXCEPT !.pc = "windows",
                            !.windows = Head(report.revs).windows]
           ELSE [frb EXCEPT !.revs = Tail(@)]
  /\ UNCHANGED <<l2p_vars, p2l_vars, stream_vars, readers, index_writer, serialized, p2l_reader, temp_context, key_cache>>

\* svn_repos_get_file_revs sends the next window of the revision's delta
\* to the handler it was given, and NULL behind the last one
DeltaWindowHandler ==
  /\ report.pc = "windows"
  /\ \E window \in {IF report.windows > 0 THEN "window" ELSE "NULL"} :
     \E frb \in {delta_window_handler(report, window)} :
       report' =
         IF frb.err
           THEN report_return(frb, TRUE)
         ELSE IF window = "NULL"
           THEN [frb EXCEPT !.pc = "get_file_revs", !.revs = Tail(@)]
           ELSE [frb EXCEPT !.windows = @ - 1]
  /\ UNCHANGED <<l2p_vars, p2l_vars, stream_vars, readers, index_writer, serialized, p2l_reader, temp_context, key_cache>>

\* svn_repos_get_file_revs returned without error: the header if it is
\* still due, the end tag, "cleanup"
FileRevsFinish ==
  /\ report.pc = "get_file_revs"
  /\ report.revs = <<>>
  /\ \E header \in {maybe_send_header(report)} :
       report' =
         IF header.err
           THEN report_return(header, TRUE)
           ELSE With(send_xml(header, REPORT_FOOTER), LAMBDA footer :
                  report_return(footer, footer.err))
  /\ UNCHANGED <<l2p_vars, p2l_vars, stream_vars, readers, index_writer, serialized, p2l_reader, temp_context, key_cache>>

\* svn_repos_get_file_revs returns an error of its own
FileRevsFail ==
  /\ report.pc = "get_file_revs"
  /\ report' = report_return(report, TRUE)
  /\ UNCHANGED <<l2p_vars, p2l_vars, stream_vars, readers, index_writer, serialized, p2l_reader, temp_context, key_cache>>

\* the request is over
FileRevsReturn ==
  /\ report.pc = "done"
  /\ report' = NoReport
  /\ UNCHANGED <<l2p_vars, p2l_vars, stream_vars, readers, index_writer, serialized, p2l_reader, temp_context, key_cache>>

\* the steps of the thread that serves the request
FileRevsStep ==
  \/ FileRevHandler
  \/ DeltaWindowHandler
  \/ FileRevsFinish

NextFileRevs ==
  \/ FileRevsReport
  \/ FileRevHandler
  \/ DeltaWindowHandler
  \/ FileRevsFinish
  \/ FileRevsFail
  \/ FileRevsReturn

\* the thread that serves the request runs until the report returns
SpecFileRevs == Init /\ [][NextFileRevs]_vars /\ WF_vars(FileRevsStep)

----------------------------------------------------------------------------
(* The elements of the report. *)

\* the places of the texts of TAGS in the output
Places(tags) == {i \in 1..Len(report.output) : report.output[i] \in tags}

\* the report has returned without an error
ReportComplete == report.pc = "done" /\ ~report.err

\* C39: in a file-revs report that completes without error the start tag
\* <S:file-revs-report> is sent exactly once, in front of every <S:file-rev>
\* element and of the end tag </S:file-revs-report>, also when no file
\* revision is reported; it is never sent twice.
C39_HeaderOnceAndFirst ==
  /\ Cardinality(Places({REPORT_HEADER})) <= 1
  /\ \A i \in Places({FILE_REV, REPORT_FOOTER}) :
       \E j \in Places({REPORT_HEADER}) : j < i
  /\ ReportComplete =>
       /\ Places({REPORT_HEADER}) = {1}
       /\ Places({REPORT_FOOTER}) = {Len(report.output)}

\* a report without file revisions is complete: the start tag and the end
\* tag
C39_Witness ==
  /\ ReportComplete
  /\ report.output = <<REPORT_HEADER, REPORT_FOOTER>>

\* the <S:file-rev> elements that are open
OpenFileRevs ==
  Cardinality(Places({FILE_REV}))
    - Cardinality(Places({FILE_REV_END, TXDELTA_END}))

\* the text in front of place I that is not one of TAGS
Before(i, tags) ==
  With({j \in 1..(i - 1) : report.output[j] \notin tags}, LAMBDA places :
    IF places = {}
      THEN "none"
      ELSE report.output[CHOOSE j \in places : \A k \in places : k <= j])

\* every end of a <S:file-rev> element closes the element that is open: the
\* handler closes the one it opened, the window handler the one whose
\* <S:txdelta> is followed by svndiff data only
C40_Closes ==
  /\ OpenFileRevs \in {0, 1}
  /\ OpenFileRevs = 1 =>
       \/ report.pc = "windows" /\ report.window_handler
       \/ report.err
  /\ \A i \in Places({FILE_REV_END}) : Before(i, {REV_PROP}) = FILE_REV
  /\ \A i \in Places({TXDELTA_END}) : Before(i, {SVNDIFF}) = TXDELTA
  /\ \A i \in Places({TXDELTA}) : Before(i, {REV_PROP}) = FILE_REV
  /\ ReportComplete => OpenFileRevs = 0

SentFileRevs ==
  {i \in Places({FILE_REV}) : report.abort_at = 0 \/ i < report.abort_at}

====
